---------------------------- MODULE Spec2Model ----------------------------
(***************************************************************************)
(* One Twilio Media Streams call session (handleTwilioStream) with its     *)
(* reply pipeline: Twilio audio -> Deepgram STT -> reply generation ->     *)
(* ElevenLabs TTS -> mu-law transcoding -> 160-byte frames -> Twilio.      *)
(*                                                                         *)
(* Text is a sequence of one-character strings; a character outside ASCII  *)
(* is written by its UTF-16 code unit ("u091c"), so Len is the JavaScript  *)
(* string length.  Audio is a sequence of bytes 0..255.  A base64 string   *)
(* is the sequence of the indices of its letters in the base64 alphabet    *)
(* (0..63), with Base64Pad for "=".                                        *)
(***************************************************************************)
EXTENDS Integers, Sequences, FiniteSets, TLC

(***************************************************************************)
(* Bounds of the model.                                                    *)
(***************************************************************************)
MaxFragments == 2
MaxUtteranceEnds == 2
MaxMedia == 2
MaxTeardowns == 1
MaxTicks == 2
TickMs == 500
MaxBufLen == 350

(***************************************************************************)
(* Program constants.                                                      *)
(***************************************************************************)
TWILIO_SAMPLE_RATE == 8000
TWILIO_MEDIA_CHUNK_MS == 20
TWILIO_MULAW_BYTES_PER_CHUNK == (TWILIO_SAMPLE_RATE * TWILIO_MEDIA_CHUNK_MS) \div 1000
\* Faulty variant: a threshold of 3 characters.
MinRealLengthOff == 12 - 9

MIN_REAL_LENGTH == 12
MULAW_SILENCE == 255
HANGOVER_MS == 1000
WS_OPEN == 1
WS_CLOSED == WS_OPEN + 2
MAX_TURNS == 8
STORE_TTL_MS == 10 * 60 * 1000
FREE_TIER_VOICE_ID == "21m00Tcm4TlvDq8ikWAM"

FILLER_PHRASES ==
  {
    <<"s","i","r">>,
    <<"j","i">>,
    <<"u091c","u0940">>,
    <<"u0939","u0948">>,
    <<"u0924","u094b">>,
    <<"o","k">>,
    <<"u0920","u0940","u0915">>,
    <<"u0909","u092e">>,
    <<"u0913","u0915","u0947">>,
    <<"u","m">>,
    <<"u","h">>,
    <<"t","h","a","n","k"," ","y","o","u">>,
    <<"t","h","a","n","k","s">>,
    <<"u0939","u093e","u0901">>,
    <<"u0939","u093e","u0902">>,
    <<"u0928","u093e">>,
    <<"n","o">>,
    <<"y","e","s">>,
    <<"t","h","e">>,
    <<"t","h","i","s">>,
    <<"t","h","a","t">>,
    <<"u0907","u0938","u0915","u0947"," ","u092c","u093e","u0930","u0947"," ","u092e","u0947","u0902">>,
    <<"u092c","u093e","u0930","u0947"," ","u092e","u0947","u0902">>,
    <<"u0938","u0930">>,
    <<"u0938","u093f","u0930">>,
    <<"u091c","u0940"," ","u091c","u0940">>,
    <<"j","i"," ","j","i">>,
    <<"s","i","r"," ","s","i","r">>,
    <<"o","k"," ","o","k">>,
    <<"u0920","u0940","u0915"," ","u0939","u0948">>,
    <<"t","h","e","e","k"," ","h","a","i">>,
    <<"u092e","u0941","u091d","u0947"," ","u092e","u0941","u091d","u0947"," ","u0939","u0948">>,
    <<"u092e","u0941","u091d","u0947"," ","u0939","u0948">>,
    <<"r","i","g","h","t">>,
    <<"s","o">>,
    <<"i","t">>,
    <<"i">>,
    <<"a">>,
    <<"t","h","e">>
  }

GREETING_TEXT ==
  <<"H","e","l","l","o",","," ","m","a","i"," ","S","i","y","a"," ","A","y","u","r","v","e","d","a"," ","s","e"," ","N","e","h","a"," ","b","a","a","t"," ","k","a","r"," ","r","a","h","i"," ","h","o","o","n","."," ","M","a","i"," ","a","a","p","k","i"," ","k","a","i","s","i"," ","s","a","h","a","y","a","t","a"," ","k","a","r"," ","s","a","k","t","i"," ","h","o","o","n","?">>

FALLBACK_TEXT ==
  <<"S","o","r","r","y",","," ","I"," ","h","a","d"," ","a"," ","p","r","o","b","l","e","m","."," ","P","l","e","a","s","e"," ","t","r","y"," ","a","g","a","i","n",".">>

(***************************************************************************)
(* JavaScript string operations used by the handlers.                      *)
(***************************************************************************)
WhiteSpace == {" ", "\t", "\n", "\r"}

Punctuation == {"u0964", "?", "!", "."}

UpperToLower ==
  [c \in {"A","B","C","D","E","F","G","H","I","J","K","L","M","N","O","P","Q","R","S","T","U","V","W","X","Y","Z"} |->
     CASE c = "A" -> "a" [] c = "B" -> "b" [] c = "C" -> "c" [] c = "D" -> "d"
       [] c = "E" -> "e" [] c = "F" -> "f" [] c = "G" -> "g" [] c = "H" -> "h"
       [] c = "I" -> "i" [] c = "J" -> "j" [] c = "K" -> "k" [] c = "L" -> "l"
       [] c = "M" -> "m" [] c = "N" -> "n" [] c = "O" -> "o" [] c = "P" -> "p"
       [] c = "Q" -> "q" [] c = "R" -> "r" [] c = "S" -> "s" [] c = "T" -> "t"
       [] c = "U" -> "u" [] c = "V" -> "v" [] c = "W" -> "w" [] c = "X" -> "x"
       [] c = "Y" -> "y" [] c = "Z" -> "z"]

\* String.prototype.toLowerCase
toLowerCase(s) ==
  [i \in 1..Len(s) |-> IF s[i] \in DOMAIN UpperToLower THEN UpperToLower[s[i]] ELSE s[i]]

\* The indices 1..Len(s), in order.
Indices(s) == [i \in 1..Len(s) |-> i]

\* String.prototype.trim: from the first to the last non-space character.
trim(s) ==
  LET solid == SelectSeq(Indices(s), LAMBDA i : s[i] \notin WhiteSpace)
  IN  IF solid = <<>> THEN <<>> ELSE SubSeq(s, solid[1], solid[Len(solid)])

\* s.replace(/\s+/g, " "): each run of white space becomes one space.
CollapseSpaces(s) ==
  LET kept == SelectSeq(Indices(s),
                LAMBDA i : s[i] \notin WhiteSpace \/ i = 1 \/ s[i - 1] \notin WhiteSpace)
  IN  [k \in 1..Len(kept) |-> IF s[kept[k]] \in WhiteSpace THEN " " ELSE s[kept[k]]]

\* w.replace(/[।?!.]/g, "")
StripPunctuation(w) == SelectSeq(w, LAMBDA c : c \notin Punctuation)

\* s.split(/\s+/).filter(Boolean): the maximal runs of non-space characters.
SplitWords(s) ==
  LET starts == SelectSeq(Indices(s),
                  LAMBDA i : s[i] \notin WhiteSpace /\ (i = 1 \/ s[i - 1] \in WhiteSpace))
      ends == SelectSeq(Indices(s),
                LAMBDA i : s[i] \notin WhiteSpace /\ (i = Len(s) \/ s[i + 1] \in WhiteSpace))
  IN  [k \in 1..Len(starts) |-> SubSeq(s, starts[k], ends[k])]

(***************************************************************************)
(* Noise gate: isFillerOnly, isRepetitiveNoise, shouldIgnoreTranscript.    *)
(***************************************************************************)
\* Faulty variant: only the length is looked at.
isFillerOnlyLengthOnly(text) ==
  Len(toLowerCase(trim(CollapseSpaces(text)))) < MIN_REAL_LENGTH

isFillerOnly(text) ==
  LET t == toLowerCase(trim(CollapseSpaces(text)))
      words == SplitWords(t)
      allFiller == \A k \in 1..Len(words) :
                      \/ words[k] \in FILLER_PHRASES
                      \/ StripPunctuation(words[k]) \in FILLER_PHRASES
  IN  IF Len(t) < MIN_REAL_LENGTH THEN TRUE
      ELSE IF Len(words) = 1 /\ t \in FILLER_PHRASES THEN TRUE
      ELSE IF allFiller /\ Len(words) <= 4 THEN TRUE
      ELSE FALSE

\* count[k] of the loop at isRepetitiveNoise: occurrences of key k among the keys.
CountOf(keys, k) == Cardinality({i \in 1..Len(keys) : keys[i] = k})

\* max / words.length >= 0.6 is decided on integers: 0.6 is 3/5 and the
\* quotient of two small integers is never within rounding of it unless equal.
isRepetitiveNoise(text) ==
  LET words == SplitWords(trim(CollapseSpaces(text)))
      keys == [i \in 1..Len(words) |-> StripPunctuation(toLowerCase(words[i]))]
      max == CHOOSE m \in {CountOf(keys, keys[i]) : i \in 1..Len(keys)} :
                \A i \in 1..Len(keys) : CountOf(keys, keys[i]) <= m
      \* Object.entries keeps insertion order: the first key that reaches max.
      first == CHOOSE i \in 1..Len(keys) :
                 /\ CountOf(keys, keys[i]) = max
                 /\ \A j \in 1..(i - 1) : CountOf(keys, keys[j]) # max
      repeatedWord == keys[first]
  IN  IF Len(words) < 3 THEN FALSE
      ELSE IF max >= 3 /\ 5 * max >= 3 * Len(words)
                /\ (repeatedWord \in FILLER_PHRASES \/ Len(repeatedWord) <= 3)
           THEN TRUE
           ELSE FALSE

shouldIgnoreTranscript(text) ==
  IF text = <<>> \/ Len(trim(text)) < MIN_REAL_LENGTH THEN TRUE
  ELSE IF isFillerOnly(text) THEN TRUE
  ELSE IF isRepetitiveNoise(text) THEN TRUE
  ELSE FALSE

(***************************************************************************)
(* base64: payload.toString("base64") and Buffer.from(payload, "base64").  *)
(***************************************************************************)
Base64Pad == 64

\* Letter p (from 0) of the encoding of b: group p \div 4 holds bytes
\* 3g, 3g+1, 3g+2 (from 0); a missing byte counts as 0 in the letter that
\* straddles it and gives "=" in the letters that lie wholly in it.
Base64Letter(b, p) ==
  LET g == p \div 4
      r == p % 4
      at(k) == IF 3 * g + k <= Len(b) THEN b[3 * g + k] ELSE 0
      has(k) == 3 * g + k <= Len(b)
  IN  CASE r = 0 -> at(1) \div 4
        [] r = 1 -> (at(1) % 4) * 16 + at(2) \div 16
        [] r = 2 -> IF has(2) THEN (at(2) % 16) * 4 + at(3) \div 64 ELSE Base64Pad
        [] r = 3 -> IF has(3) THEN at(3) % 64 ELSE Base64Pad

Base64Encode(b) ==
  [p \in 1..(4 * ((Len(b) + 2) \div 3)) |-> Base64Letter(b, p - 1)]

\* The letters before the first "=": Node's decoder stops there.
Base64Letters(s) ==
  LET pads == SelectSeq(Indices(s), LAMBDA i : s[i] = Base64Pad)
  IN  IF pads = <<>> THEN s ELSE SubSeq(s, 1, pads[1] - 1)

\* Byte k (from 0) of the decoding of the letters l.
Base64Byte(l, k) ==
  LET g == k \div 3
      r == k % 3
  IN  CASE r = 0 -> l[4 * g + 1] * 4 + l[4 * g + 2] \div 16
        [] r = 1 -> (l[4 * g + 2] % 16) * 16 + l[4 * g + 3] \div 4
        [] r = 2 -> (l[4 * g + 3] % 4) * 64 + l[4 * g + 4]

\* A trailing group of 2 or 3 letters gives 1 or 2 bytes; a lone letter none.
Base64Decode(s) ==
  LET l == Base64Letters(s)
      n == 3 * (Len(l) \div 4) + (IF Len(l) % 4 >= 2 THEN (Len(l) % 4) - 1 ELSE 0)
  IN  [k \in 1..n |-> Base64Byte(l, k - 1)]

(***************************************************************************)
(* The playback loop: slices a mu-law buffer into 160-byte payloads, the   *)
(* last one padded with 0xff.  FrameLoop(buf) is the sequence of payloads  *)
(* passed, base64-encoded, to sendMediaToTwilio, in call order.            *)
(***************************************************************************)
\* Buffer.alloc(n, 0xff)
BufferAlloc(n, fill) == [k \in 1..n |-> fill]

\* buf.subarray(i, j) with 0-based i, j clamped to the buffer
Subarray(buf, i, j) ==
  LET e == IF j > Len(buf) THEN Len(buf) ELSE j
  IN  IF i >= e THEN <<>> ELSE SubSeq(buf, i + 1, e)

\* Faulty variant: the last frame is padded with zero bytes.
FramePayloadZeroFill(chunk) ==
  IF Len(chunk) < TWILIO_MULAW_BYTES_PER_CHUNK
  THEN chunk \o BufferAlloc(TWILIO_MULAW_BYTES_PER_CHUNK - Len(chunk), 0)
  ELSE chunk

FramePayload(chunk) ==
  IF Len(chunk) < TWILIO_MULAW_BYTES_PER_CHUNK
  THEN chunk \o BufferAlloc(TWILIO_MULAW_BYTES_PER_CHUNK - Len(chunk), MULAW_SILENCE)
  ELSE chunk

RECURSIVE FrameLoopFrom(_, _)
FrameLoopFrom(buf, i) ==
  IF ~(i < Len(buf)) THEN <<>>
  ELSE LET chunk == Subarray(buf, i, i + TWILIO_MULAW_BYTES_PER_CHUNK)
       IN  IF Len(chunk) = 0 THEN <<>>
           ELSE <<FramePayload(chunk)>>
                  \o FrameLoopFrom(buf, i + TWILIO_MULAW_BYTES_PER_CHUNK)

FrameLoop(buf) == FrameLoopFrom(buf, 0)


(***************************************************************************)
(* Inputs of the model.                                                    *)
(***************************************************************************)
NULL == "null"

TxtOrder ==
  <<"m","u","j","h","e"," ","a","s","h","w","a","g","a","n","d","h","a"," ","t","a","b","l","e","t","s"," ","c","h","a","h","i","y","e">>

TxtShort == <<"h","a","a","n"," ","j","i">>

TxtBlank == <<" ">>

\* Transcripts the recognition engine delivers in the turn-taking runs.
TurnTexts == {TxtOrder, TxtShort, TxtBlank}

\* Transcripts of the noise-gate runs: filler words, a repeated short word,
\* and a content word.
TxtJi == <<"j","i">>

TxtRightRight == <<"r","i","g","h","t"," ","r","i","g","h","t">>

TxtKyaKya == <<"k","y","a"," ","k","y","a">>

TxtBatao == <<"b","a","t","a","o">>

GateTexts == {TxtJi, TxtRightRight, TxtKyaKya, TxtBatao}

ReplyText == <<"J","i"," ","b","i","l","k","u","l",".">>

\* The texts nehaResponseWithHistory returns in place of a reply: when the
\* response carries no message, when the message has no text, and when the
\* rounds are used up.
NoMessageText ==
  <<"S","o","r","r","y",","," ","m","a","i","n"," ","a","b","h","i"," ","r",
    "e","s","p","o","n","d"," ","n","a","h","i"," ","d","e"," ","p","a","a",
    "y","i","."," ","P","h","i","r"," ","t","r","y"," ","k","a","r","e","i",
    "n",".">>

EmptyContentText ==
  <<"A","u","r"," ","b","a","t","a","i","y","e",","," ","m","a","i","n"," ",
    "k","a","i","s","e"," ","h","e","l","p"," ","k","a","r"," ","s","a","k",
    "t","i"," ","h","o","o","n","?">>

ExhaustedText ==
  <<"T","h","o","d","a"," ","t","i","m","e"," ","l","a","g","e","g","a",",",
    " ","b","a","a","d"," ","m","e","i","n"," ","p","h","i","r"," ","t","r",
    "y"," ","k","a","r","e","i","n",".">>

\* Texts nehaResponseWithHistory may return (never empty: every return path
\* yields a non-empty string).
Replies == {ReplyText}

\* streamSid values a start message may carry (msg.start?.streamSid ?? null).
StreamSids == {"MZ1"}

\* The same for a socket on which start messages may come again, under
\* another id or without one.
RestartSids == {"MZ1", "MZ2", NULL}

\* A raw mu-law buffer of length n: what the transcoder returns.
Buf(n) == [i \in 1..n |-> (i * 37 + n) % 256]

\* Length of the buffers the transcoder returns in the turn-taking runs:
\* one full frame and a partial one.
TurnBufLens == {TWILIO_MULAW_BYTES_PER_CHUNK + 30}

\* The audio of the k-th inbound media message, and its base64 payload.
MediaBytes(k) == <<k, 255, 0, 100 + k>>

MediaPayload(k) == Base64Encode(MediaBytes(k))

(***************************************************************************)
(* State.                                                                  *)
(***************************************************************************)
VARIABLES
  streamSid,               \* let streamSid
  deepgramLive,            \* let deepgramLive: 0 (null) or a connection of conns
  keepAliveInterval,       \* let keepAliveInterval: 0 (null) or a timer of timers
  messages,                \* const messages: the conversation history
  isPlaying,               \* let isPlaying
  pendingTranscript,       \* let pendingTranscript
  ignoreTranscriptsUntil,  \* let ignoreTranscriptsUntil
  deepgramApiKey,          \* whether DEEPGRAM_API_KEY is set
  readyState,              \* twilioWs.readyState
  conns,                   \* the recognition connections created so far
  timers,                  \* the active setInterval timers
  tasks,                   \* async functions suspended at an await
  now,                     \* Date.now()
  out,                     \* calls of sendToTwilio / sendMediaToTwilio, in order
  dg,                      \* calls of deepgramLive.send, in order
  inbound,                 \* media messages received, in order
  plays,                   \* runs of the playback loop, in order
  genCalls,                \* calls of nehaResponseWithHistory so far
  lastEnd,                 \* what the last UtteranceEnd handler run did
  budget,                  \* environment events still to come, per kind
  cleanups,                \* runs of cleanup(), by the side that caused them
  buf, frames, sliced,     \* the playback loop on its own (SpecFrames)
  ELEVENLABS_VOICE_ID,     \* config.js: the voice of the deployment
  playbackStore,           \* app.js: const playbackStore, fromNumber -> entry
  answered,                \* the last response of app.js to a request
  runs,                    \* app.js: the requests that wait for the pipeline
  EXOTEL_CALLBACK_PLAY_RESPONSE,  \* config.js
  EXOTEL_APP_ID,           \* config.js: "" when the environment has none
  cur,                     \* the connection whose event the event loop runs
  peer                     \* the closures of the other connections

vars ==
  <<streamSid, deepgramLive, keepAliveInterval, messages, isPlaying,
    pendingTranscript, ignoreTranscriptsUntil, deepgramApiKey, readyState,
    conns, timers, tasks, now, out, dg, inbound, plays, genCalls, lastEnd,
    budget, cleanups, buf, frames, sliced, ELEVENLABS_VOICE_ID,
    playbackStore, answered, cur, peer, runs, EXOTEL_CALLBACK_PLAY_RESPONSE,
    EXOTEL_APP_ID>>

closureVars ==
  <<streamSid, deepgramLive, keepAliveInterval, messages, isPlaying,
    pendingTranscript, ignoreTranscriptsUntil>>

frameVars == <<buf, frames, sliced>>

\* Module-level state, outside the closure of handleTwilioStream.
exotelVars == <<runs, EXOTEL_CALLBACK_PLAY_RESPONSE, EXOTEL_APP_ID>>

moduleVars ==
  <<ELEVENLABS_VOICE_ID, playbackStore, answered, cur, peer, exotelVars>>

sessionVars ==
  <<streamSid, deepgramLive, keepAliveInterval, messages, isPlaying,
    pendingTranscript, ignoreTranscriptsUntil, deepgramApiKey, readyState,
    conns, timers, tasks, now, out, dg, inbound, plays, genCalls, lastEnd,
    budget, cleanups>>


(***************************************************************************)
(* Helpers of the handlers.                                                *)
(***************************************************************************)
RemoveAt(q, i) == SubSeq(q, 1, i - 1) \o SubSeq(q, i + 1, Len(q))

\* sendToTwilio(obj): the call and whether it reached twilioWs.send.
ErrorCall ==
  [event |-> "error", streamSid |-> NULL, payload |-> <<>>,
   wired |-> readyState = WS_OPEN]

\* Faulty variant: sendMediaToTwilio does not look at streamSid.
MediaCallNoSidCheck(sid, payloadBase64) ==
  [event |-> "media", streamSid |-> sid, payload |-> payloadBase64,
   wired |-> readyState = WS_OPEN]

\* sendMediaToTwilio(payloadBase64) under stream id sid.
MediaCall(sid, payloadBase64) ==
  [event |-> "media", streamSid |-> sid, payload |-> payloadBase64,
   wired |-> sid # NULL /\ readyState = WS_OPEN]

\* Faulty variant: the loop stops one frame early.
PlayBufferSkipsLast(sid, mulawBuffer) ==
  LET fs == FrameLoop(mulawBuffer)
  IN  [k \in 1..(Len(fs) - 1) |-> MediaCall(sid, Base64Encode(fs[k]))]

\* The playback loop over mulawBuffer: its calls of sendMediaToTwilio.
PlayBuffer(sid, mulawBuffer) ==
  LET fs == FrameLoop(mulawBuffer)
  IN  [k \in 1..Len(fs) |-> MediaCall(sid, Base64Encode(fs[k]))]

PlayRecord(kind, n) == [kind |-> kind, len |-> n, at |-> Len(out) + 1]

\* cleanup(): the timers and the connections it leaves.
CleanupTimers == IF keepAliveInterval # 0 THEN timers \ {keepAliveInterval} ELSE timers

CleanupConns(cs) ==
  IF deepgramLive # 0
  THEN [cs EXCEPT ![deepgramLive].closeReqs = @ + 1]
  ELSE cs

\* Faulty variant: the connection is not forgotten after the close request.
cleanupKeepsConnection(cs) ==
  /\ timers' = CleanupTimers
  /\ keepAliveInterval' = 0
  /\ conns' = CleanupConns(cs)
  /\ deepgramLive' = deepgramLive

cleanup(cs) ==
  /\ timers' = CleanupTimers
  /\ keepAliveInterval' = 0
  /\ conns' = CleanupConns(cs)
  /\ deepgramLive' = 0

\* The locals of the function a task has called and is waiting for: the
\* await it is suspended at, nehaResponseWithHistory's maxTurns and the
\* model calls it has made, textToSpeech's voiceId and the backend calls it
\* has made.
Locals(at, maxTurns, calls, voiceId, made) ==
  [at |-> at, maxTurns |-> maxTurns, calls |-> calls, voiceId |-> voiceId,
   made |-> made]

\* A callee runs to its first await when it is called: nehaResponseWithHistory
\* passes the loop test once and calls the model; textToSpeech calls
\* ElevenLabs with the configured voice.
EntryLocals(pc) ==
  IF pc = "gen"
  THEN Locals("model", MAX_TURNS - 1, 1, NULL, <<>>)
  ELSE IF pc \in {"tts", "fb_tts"}
  THEN Locals("convert", 0, 0, ELEVENLABS_VOICE_ID,
              <<[backend |-> "elevenlabs", voiceId |-> ELEVENLABS_VOICE_ID]>>)
  ELSE Locals("", 0, 0, NULL, <<>>)

Task(kind, pc, text, arg) ==
  [kind |-> kind, pc |-> pc, text |-> text, arg |-> arg, loc |-> EntryLocals(pc)]

\* Faulty variant: the cycle ends without resetting isPlaying.
FinallyStaysSpeaking(i) ==
  /\ isPlaying' = isPlaying
  /\ ignoreTranscriptsUntil' = now + HANGOVER_MS
  /\ tasks' = RemoveAt(tasks, i)

\* Faulty variant: the cycle ends without opening the hangover window.
FinallyNoHangover(i) ==
  /\ isPlaying' = FALSE
  /\ ignoreTranscriptsUntil' = now
  /\ tasks' = RemoveAt(tasks, i)

\* The finally block of processTranscript.
Finally(i) ==
  /\ isPlaying' = FALSE
  /\ ignoreTranscriptsUntil' = now + HANGOVER_MS
  /\ tasks' = RemoveAt(tasks, i)

\* Faulty variant: the catch block asks for a reply again instead of the apology.
CatchRetriesGeneration(i) ==
  tasks' = [tasks EXCEPT ![i] = Task("cycle", "gen", <<>>, tasks[i].arg)]

\* The catch block of processTranscript up to its first await.
CatchToFallback(i) ==
  tasks' = [tasks EXCEPT ![i] = Task("cycle", "fb_tts", FALLBACK_TEXT, <<>>)]

\* The head of allMessages in nehaResponseWithHistory; the prompt's text is
\* one opaque character.
SystemMessage == [role |-> "system", content |-> <<"NEHA_SYSTEM_PROMPT">>]

\* Faulty variant: processTranscript does not look at isPlaying.
AdmissionNoLock(userText) ==
  IF userText = <<>> \/ trim(userText) = <<>> THEN "blank" ELSE "started"

\* What a run of processTranscript(userText) does at its two guards.
Admission(userText) ==
  IF isPlaying THEN "busy"
  ELSE IF userText = <<>> \/ trim(userText) = <<>> THEN "blank"
  ELSE "started"

\* Faulty variant: the caller turn is not pushed.
processTranscriptNoPush(userText) ==
  IF Admission(userText) # "started"
  THEN UNCHANGED <<isPlaying, messages, tasks, genCalls>>
  ELSE /\ isPlaying' = TRUE
       /\ messages' = messages
       /\ genCalls' = genCalls + 1
       /\ tasks' = Append(tasks, Task("cycle", "gen", <<>>, <<SystemMessage>> \o messages))

\* Faulty variant: the guards sit inside the try block, so that a rejected
\* call runs the finally block's release of the lock.
processTranscriptRejectReleases(userText) ==
  IF Admission(userText) # "started"
  THEN /\ isPlaying' = FALSE
       /\ UNCHANGED <<messages, tasks, genCalls>>
  ELSE /\ isPlaying' = TRUE
       /\ messages' = Append(messages, [role |-> "user", content |-> userText])
       /\ genCalls' = genCalls + 1
       /\ tasks' = Append(tasks, Task("cycle", "gen", <<>>, <<SystemMessage>> \o messages'))

\* processTranscript(userText) up to its first await: the call of
\* nehaResponseWithHistory copies the history behind the system message.
processTranscript(userText) ==
  IF Admission(userText) # "started"
  THEN UNCHANGED <<isPlaying, messages, tasks, genCalls>>
  ELSE /\ isPlaying' = TRUE
       /\ messages' = Append(messages, [role |-> "user", content |-> userText])
       /\ genCalls' = genCalls + 1
       /\ tasks' = Append(tasks, Task("cycle", "gen", <<>>, <<SystemMessage>> \o messages'))

(***************************************************************************)
(* Initial state: handleTwilioStream has run on an open socket.            *)
(***************************************************************************)
InitSession ==
  /\ streamSid = NULL
  /\ deepgramLive = 0
  /\ keepAliveInterval = 0
  /\ messages = <<>>
  /\ isPlaying = FALSE
  /\ pendingTranscript = <<>>
  /\ ignoreTranscriptsUntil = 0
  /\ deepgramApiKey \in BOOLEAN
  /\ readyState = WS_OPEN
  /\ conns = <<>>
  /\ timers = {}
  /\ tasks = <<>>
  /\ now = TickMs
  /\ out = <<>>
  /\ dg = <<>>
  /\ inbound = <<>>
  /\ plays = <<>>
  /\ genCalls = 0
  /\ lastEnd = [outcome |-> "none", len |-> 0, text |-> <<>>]
  /\ cleanups = [twilio |-> 0, deepgram |-> 0]

NoFrames ==
  /\ buf = <<>>
  /\ frames = <<>>
  /\ sliced = FALSE

\* app.js when it has been loaded: an empty store, no request answered.
IdleServer ==
  /\ playbackStore = <<>>
  /\ answered = [from |-> NULL, type |-> "none", value |-> <<>>, swept |-> {}]
  /\ runs = <<>>
  /\ EXOTEL_CALLBACK_PLAY_RESPONSE = TRUE
  /\ EXOTEL_APP_ID = ""

\* One media-stream connection only.
OneConnection ==
  /\ cur = 1
  /\ peer = <<>>

\* A deployment without ELEVENLABS_VOICE_ID in its environment.
DefaultModule ==
  /\ ELEVENLABS_VOICE_ID = FREE_TIER_VOICE_ID
  /\ IdleServer
  /\ OneConnection

Budget(starts, fragments, utteranceEnds, media, teardowns, ticks) ==
  [starts |-> starts, fragments |-> fragments, utteranceEnds |-> utteranceEnds,
   media |-> media, teardowns |-> teardowns, ticks |-> ticks]

(***************************************************************************)
(* twilioWs.on("message"): start, media, stop.                             *)
(***************************************************************************)
\* One more environment event of this kind, if the budget allows it.
Spend(kind) ==
  /\ budget[kind] > 0
  /\ budget' = [budget EXCEPT ![kind] = @ - 1]

\* Faulty variant: the start handler does not look at DEEPGRAM_API_KEY.
TwilioStartNoKeyCheck(sid) ==
  /\ readyState = WS_OPEN
  /\ Spend("starts")
  /\ streamSid' = sid
  /\ tasks' = Append(tasks, Task("greeting", "tts", GREETING_TEXT, <<>>))
  /\ conns' = Append(conns, [st |-> "connecting", closeReqs |-> 0, err |-> FALSE])
  /\ deepgramLive' = Len(conns) + 1
  /\ out' = out
  /\ UNCHANGED <<keepAliveInterval, messages, isPlaying, pendingTranscript,
                 ignoreTranscriptsUntil, deepgramApiKey, readyState, timers,
                 now, dg, inbound, plays, genCalls, lastEnd, cleanups,
                 frameVars, moduleVars>>

\* Faulty variant: the greeting takes the speaking lock.
TwilioStartSpeaks(sid) ==
  /\ readyState = WS_OPEN
  /\ Spend("starts")
  /\ streamSid' = sid
  /\ IF ~deepgramApiKey
     THEN /\ out' = Append(out, ErrorCall)
          /\ UNCHANGED <<tasks, conns, deepgramLive, isPlaying>>
     ELSE /\ isPlaying' = TRUE
          /\ tasks' = Append(tasks, Task("greeting", "tts", GREETING_TEXT, <<>>))
          /\ conns' = Append(conns, [st |-> "connecting", closeReqs |-> 0, err |-> FALSE])
          /\ deepgramLive' = Len(conns) + 1
          /\ out' = out
  /\ UNCHANGED <<keepAliveInterval, messages, pendingTranscript,
                 ignoreTranscriptsUntil, deepgramApiKey, readyState, timers,
                 now, dg, inbound, plays, genCalls, lastEnd, cleanups,
                 frameVars, moduleVars>>

TwilioStart(sid) ==
  /\ readyState = WS_OPEN
  /\ Spend("starts")
  /\ streamSid' = sid
  /\ IF ~deepgramApiKey
     THEN /\ out' = Append(out, ErrorCall)
          /\ UNCHANGED <<tasks, conns, deepgramLive>>
     ELSE \* the greeting runs to its first await; then the recognition
          \* connection is created and its handlers registered
          /\ tasks' = Append(tasks, Task("greeting", "tts", GREETING_TEXT, <<>>))
          /\ conns' = Append(conns, [st |-> "connecting", closeReqs |-> 0, err |-> FALSE])
          /\ deepgramLive' = Len(conns) + 1
          /\ out' = out
  /\ UNCHANGED <<keepAliveInterval, messages, isPlaying, pendingTranscript,
                 ignoreTranscriptsUntil, deepgramApiKey, readyState, timers,
                 now, dg, inbound, plays, genCalls, lastEnd, cleanups,
                 frameVars, moduleVars>>

\* Faulty variant: inbound audio is forwarded while a reply is playing.
TwilioMediaNoGate ==
  /\ readyState = WS_OPEN
  /\ Spend("media")
  /\ LET payload == MediaPayload(Len(inbound) + 1) IN
     /\ inbound' = Append(inbound, [payload |-> payload, playing |-> isPlaying,
                                    live |-> deepgramLive])
     /\ IF deepgramLive # 0
        THEN dg' = Append(dg, [conn |-> deepgramLive, data |-> Base64Decode(payload)])
        ELSE dg' = dg
  /\ UNCHANGED <<closureVars, deepgramApiKey, readyState, conns, timers, tasks,
                 now, out, plays, genCalls, lastEnd, cleanups, frameVars, moduleVars>>

\* Faulty variant: the payload is forwarded as received, without base64 decoding.
TwilioMediaNoDecode ==
  /\ readyState = WS_OPEN
  /\ Spend("media")
  /\ LET payload == MediaPayload(Len(inbound) + 1) IN
     /\ inbound' = Append(inbound, [payload |-> payload, playing |-> isPlaying,
                                    live |-> deepgramLive])
     /\ IF deepgramLive # 0
        THEN IF isPlaying
             THEN dg' = dg
             ELSE dg' = Append(dg, [conn |-> deepgramLive, data |-> payload])
        ELSE dg' = dg
  /\ UNCHANGED <<closureVars, deepgramApiKey, readyState, conns, timers, tasks,
                 now, out, plays, genCalls, lastEnd, cleanups, frameVars, moduleVars>>

TwilioMedia ==
  /\ readyState = WS_OPEN
  /\ Spend("media")
  /\ LET payload == MediaPayload(Len(inbound) + 1) IN
     /\ inbound' = Append(inbound, [payload |-> payload, playing |-> isPlaying,
                                    live |-> deepgramLive])
     /\ IF deepgramLive # 0
        THEN IF isPlaying
             THEN dg' = dg
             ELSE dg' = Append(dg, [conn |-> deepgramLive,
                                    data |-> Base64Decode(payload)])
        ELSE dg' = dg
  /\ UNCHANGED <<closureVars, deepgramApiKey, readyState, conns, timers, tasks,
                 now, out, plays, genCalls, lastEnd, cleanups, frameVars, moduleVars>>

TwilioStop ==
  /\ readyState = WS_OPEN
  /\ Spend("teardowns")
  /\ cleanup(conns)
  /\ cleanups' = [cleanups EXCEPT !.twilio = @ + 1]
  /\ UNCHANGED <<streamSid, messages, isPlaying, pendingTranscript,
                 ignoreTranscriptsUntil, deepgramApiKey, readyState, tasks, now,
                 out, dg, inbound, plays, genCalls, lastEnd, frameVars, moduleVars>>

(***************************************************************************)
(* twilioWs.on("close") and twilioWs.on("error").                          *)
(***************************************************************************)
TwilioClose ==
  /\ readyState = WS_OPEN
  /\ readyState' = WS_CLOSED
  /\ cleanup(conns)
  /\ cleanups' = [cleanups EXCEPT !.twilio = @ + 1]
  /\ UNCHANGED <<streamSid, messages, isPlaying, pendingTranscript,
                 ignoreTranscriptsUntil, deepgramApiKey, tasks, now, out, dg,
                 inbound, plays, genCalls, lastEnd, budget, frameVars, moduleVars>>

TwilioError ==
  /\ readyState = WS_OPEN
  /\ Spend("teardowns")
  /\ cleanup(conns)
  /\ cleanups' = [cleanups EXCEPT !.twilio = @ + 1]
  /\ UNCHANGED <<streamSid, messages, isPlaying, pendingTranscript,
                 ignoreTranscriptsUntil, deepgramApiKey, readyState, tasks, now,
                 out, dg, inbound, plays, genCalls, lastEnd, frameVars, moduleVars>>

(***************************************************************************)
(* Recognition connection events: Open, Close, Error, Transcript,          *)
(* UtteranceEnd.  The handlers of a connection stay registered after       *)
(* deepgramLive is reset.                                                  *)
(***************************************************************************)
DeepgramOpen(c) ==
  /\ c \in DOMAIN conns
  /\ conns[c].st = "connecting"
  /\ conns' = [conns EXCEPT ![c].st = "open"]
  \* keepAliveInterval = setInterval(...): a new timer
  /\ LET t == CHOOSE n \in 1..(Cardinality(timers) + 1) : n \notin timers IN
     /\ timers' = timers \cup {t}
     /\ keepAliveInterval' = t
  /\ UNCHANGED <<streamSid, deepgramLive, messages, isPlaying, pendingTranscript,
                 ignoreTranscriptsUntil, deepgramApiKey, readyState, tasks, now,
                 out, dg, inbound, plays, genCalls, lastEnd, budget, cleanups,
                 frameVars, moduleVars>>

\* Faulty variant: the Close handler only logs.
DeepgramCloseOnlyLogs(c) ==
  /\ c \in DOMAIN conns
  /\ conns[c].st # "closed"
  /\ conns' = [conns EXCEPT ![c].st = "closed"]
  /\ cleanups' = [cleanups EXCEPT !.deepgram = @ + 1]
  /\ UNCHANGED <<streamSid, deepgramLive, keepAliveInterval, timers, messages,
                 isPlaying, pendingTranscript,
                 ignoreTranscriptsUntil, deepgramApiKey, readyState, tasks, now,
                 out, dg, inbound, plays, genCalls, lastEnd, budget, frameVars, moduleVars>>

DeepgramClose(c) ==
  /\ c \in DOMAIN conns
  /\ conns[c].st # "closed"
  /\ cleanup([conns EXCEPT ![c].st = "closed"])
  /\ cleanups' = [cleanups EXCEPT !.deepgram = @ + 1]
  /\ UNCHANGED <<streamSid, messages, isPlaying, pendingTranscript,
                 ignoreTranscriptsUntil, deepgramApiKey, readyState, tasks, now,
                 out, dg, inbound, plays, genCalls, lastEnd, budget, frameVars, moduleVars>>

DeepgramError(c) ==
  /\ c \in DOMAIN conns
  /\ conns[c].st # "closed"
  /\ ~conns[c].err
  /\ cleanup([conns EXCEPT ![c].err = TRUE])
  /\ cleanups' = [cleanups EXCEPT !.deepgram = @ + 1]
  /\ UNCHANGED <<streamSid, messages, isPlaying, pendingTranscript,
                 ignoreTranscriptsUntil, deepgramApiKey, readyState, tasks, now,
                 out, dg, inbound, plays, genCalls, lastEnd, budget, frameVars, moduleVars>>

\* Faulty variant: only final fragments are added to the accumulator.
DeepgramTranscriptFinalOnly(c, transcript, isFinal) ==
  /\ c \in DOMAIN conns
  /\ conns[c].st = "open"
  /\ Spend("fragments")
  /\ IF transcript = <<>> \/ trim(transcript) = <<>>
     THEN pendingTranscript' = pendingTranscript
     ELSE IF isFinal
          THEN pendingTranscript' = trim(pendingTranscript \o <<" ">> \o transcript)
          ELSE pendingTranscript' = pendingTranscript
  /\ UNCHANGED <<streamSid, deepgramLive, keepAliveInterval, messages, isPlaying,
                 ignoreTranscriptsUntil, deepgramApiKey, readyState, conns,
                 timers, tasks, now, out, dg, inbound, plays, genCalls, lastEnd, cleanups,
                 frameVars, moduleVars>>

DeepgramTranscript(c, transcript, isFinal) ==
  /\ c \in DOMAIN conns
  /\ conns[c].st = "open"
  /\ Spend("fragments")
  /\ IF transcript = <<>> \/ trim(transcript) = <<>>
     THEN pendingTranscript' = pendingTranscript
     ELSE IF isFinal
          THEN pendingTranscript' = trim(pendingTranscript \o <<" ">> \o transcript)
          ELSE pendingTranscript' = trim(pendingTranscript \o <<" ">> \o transcript)
  /\ UNCHANGED <<streamSid, deepgramLive, keepAliveInterval, messages, isPlaying,
                 ignoreTranscriptsUntil, deepgramApiKey, readyState, conns,
                 timers, tasks, now, out, dg, inbound, plays, genCalls, lastEnd, cleanups,
                 frameVars, moduleVars>>

\* Faulty variant: an utterance end inside the hangover window keeps the
\* accumulator.
DeepgramUtteranceEndKeepsSuppressed(c) ==
  /\ c \in DOMAIN conns
  /\ conns[c].st = "open"
  /\ Spend("utteranceEnds")
  /\ IF now < ignoreTranscriptsUntil
     THEN /\ pendingTranscript' = pendingTranscript
          /\ lastEnd' = [outcome |-> "suppressed", len |-> Len(trim(pendingTranscript)),
                          text |-> trim(pendingTranscript)]
          /\ UNCHANGED <<isPlaying, messages, tasks, genCalls>>
     ELSE LET userText == trim(pendingTranscript) IN
          /\ pendingTranscript' = <<>>
          /\ IF shouldIgnoreTranscript(userText)
             THEN /\ lastEnd' = [outcome |-> "ignored", len |-> Len(userText),
                                  text |-> userText]
                  /\ UNCHANGED <<isPlaying, messages, tasks, genCalls>>
             ELSE /\ lastEnd' = [outcome |-> Admission(userText), len |-> Len(userText),
                                  text |-> userText]
                  /\ processTranscript(userText)
  /\ UNCHANGED <<streamSid, deepgramLive, keepAliveInterval,
                 ignoreTranscriptsUntil, deepgramApiKey, readyState, conns,
                 timers, now, out, dg, inbound, plays, cleanups, frameVars, moduleVars>>

\* Faulty variant: the handler does not look at ignoreTranscriptsUntil.
DeepgramUtteranceEndNoHangover(c) ==
  /\ c \in DOMAIN conns
  /\ conns[c].st = "open"
  /\ Spend("utteranceEnds")
  /\ pendingTranscript' = <<>>
  /\ LET userText == trim(pendingTranscript) IN
     IF shouldIgnoreTranscript(userText)
     THEN /\ lastEnd' = [outcome |-> "ignored", len |-> Len(userText), text |-> userText]
          /\ UNCHANGED <<isPlaying, messages, tasks, genCalls>>
     ELSE /\ lastEnd' = [outcome |-> Admission(userText), len |-> Len(userText),
                          text |-> userText]
          /\ processTranscript(userText)
  /\ UNCHANGED <<streamSid, deepgramLive, keepAliveInterval,
                 ignoreTranscriptsUntil, deepgramApiKey, readyState, conns,
                 timers, now, out, dg, inbound, plays, cleanups, frameVars, moduleVars>>

DeepgramUtteranceEnd(c) ==
  /\ c \in DOMAIN conns
  /\ conns[c].st = "open"
  /\ Spend("utteranceEnds")
  /\ pendingTranscript' = <<>>
  /\ IF now < ignoreTranscriptsUntil
     THEN /\ lastEnd' = [outcome |-> "suppressed", len |-> Len(trim(pendingTranscript)),
                          text |-> trim(pendingTranscript)]
          /\ UNCHANGED <<isPlaying, messages, tasks, genCalls>>
     ELSE LET userText == trim(pendingTranscript) IN
          IF shouldIgnoreTranscript(userText)
          THEN /\ lastEnd' = [outcome |-> "ignored", len |-> Len(userText), text |-> userText]
               /\ UNCHANGED <<isPlaying, messages, tasks, genCalls>>
          ELSE /\ lastEnd' = [outcome |-> Admission(userText), len |-> Len(userText),
                          text |-> userText]
               /\ processTranscript(userText)
  /\ UNCHANGED <<streamSid, deepgramLive, keepAliveInterval,
                 ignoreTranscriptsUntil, deepgramApiKey, readyState, conns,
                 timers, now, out, dg, inbound, plays, cleanups, frameVars, moduleVars>>

(***************************************************************************)
(* processTranscript after its awaits.  Each action is the continuation    *)
(* that runs when the awaited call settles, up to the next await.          *)
(***************************************************************************)
pipelineFrame ==
  <<streamSid, deepgramLive, keepAliveInterval, pendingTranscript,
    deepgramApiKey, readyState, conns, timers, now, dg, inbound, genCalls,
    lastEnd, budget, cleanups, frameVars, moduleVars>>

IsAt(i, kind, pc) == i \in DOMAIN tasks /\ tasks[i].kind = kind /\ tasks[i].pc = pc

\* Faulty variant: the reply is put in front of the history.
GenerationReturnsPrepends(i, reply) ==
  /\ IsAt(i, "cycle", "gen")
  /\ messages' = <<[role |-> "assistant", content |-> reply]>> \o messages
  /\ tasks' = [tasks EXCEPT ![i] = Task("cycle", "tts", reply, <<>>)]
  /\ UNCHANGED <<isPlaying, ignoreTranscriptsUntil, out, plays, pipelineFrame>>

\* nehaResponseWithHistory(messages) resolves with reply
GenerationReturns(i, reply) ==
  /\ IsAt(i, "cycle", "gen")
  /\ messages' = Append(messages, [role |-> "assistant", content |-> reply])
  /\ tasks' = [tasks EXCEPT ![i] = Task("cycle", "tts", reply, <<>>)]
  /\ UNCHANGED <<isPlaying, ignoreTranscriptsUntil, out, plays, pipelineFrame>>

\* nehaResponseWithHistory(messages) rejects
\* Faulty variant: the catch block records its apology in the history.
GenerationFailsRecordsApology(i) ==
  /\ IsAt(i, "cycle", "gen")
  /\ CatchToFallback(i)
  /\ messages' = Append(messages, [role |-> "assistant", content |-> FALLBACK_TEXT])
  /\ UNCHANGED <<isPlaying, ignoreTranscriptsUntil, out, plays, pipelineFrame>>

GenerationFails(i) ==
  /\ IsAt(i, "cycle", "gen")
  /\ CatchToFallback(i)
  /\ UNCHANGED <<messages, isPlaying, ignoreTranscriptsUntil, out, plays, pipelineFrame>>

\* textToSpeech(reply) resolves; an empty buffer makes mp3ToMulaw8k reject
SynthesisReturns(i, mp3Empty) ==
  /\ IsAt(i, "cycle", "tts")
  /\ IF mp3Empty
     THEN CatchToFallback(i)
     ELSE tasks' = [tasks EXCEPT ![i].pc = "mulaw"]
  /\ UNCHANGED <<messages, isPlaying, ignoreTranscriptsUntil, out, plays, pipelineFrame>>

\* textToSpeech(reply) rejects
SynthesisFails(i) ==
  /\ IsAt(i, "cycle", "tts")
  /\ CatchToFallback(i)
  /\ UNCHANGED <<messages, isPlaying, ignoreTranscriptsUntil, out, plays, pipelineFrame>>

\* mp3ToMulaw8k(mp3Buffer) resolves with a buffer of n bytes
TranscodeReturns(i, n) ==
  /\ IsAt(i, "cycle", "mulaw")
  /\ IF n = 0
     THEN /\ CatchToFallback(i)
          /\ UNCHANGED <<isPlaying, ignoreTranscriptsUntil, out, plays>>
     ELSE /\ out' = out \o PlayBuffer(streamSid, Buf(n))
          /\ plays' = Append(plays, PlayRecord("reply", n))
          /\ Finally(i)
  /\ UNCHANGED <<messages, pipelineFrame>>

\* mp3ToMulaw8k(mp3Buffer) rejects
TranscodeFails(i) ==
  /\ IsAt(i, "cycle", "mulaw")
  /\ CatchToFallback(i)
  /\ UNCHANGED <<messages, isPlaying, ignoreTranscriptsUntil, out, plays, pipelineFrame>>

\* textToSpeech(fallback) resolves
FallbackSynthesisReturns(i, mp3Empty) ==
  /\ IsAt(i, "cycle", "fb_tts")
  /\ IF mp3Empty
     THEN Finally(i)
     ELSE /\ tasks' = [tasks EXCEPT ![i].pc = "fb_mulaw"]
          /\ UNCHANGED <<isPlaying, ignoreTranscriptsUntil>>
  /\ UNCHANGED <<messages, out, plays, pipelineFrame>>

\* Faulty variant: a failed apology ends the cycle without the finally block.
FallbackSynthesisFailsStuck(i) ==
  /\ IsAt(i, "cycle", "fb_tts")
  /\ tasks' = RemoveAt(tasks, i)
  /\ UNCHANGED <<isPlaying, ignoreTranscriptsUntil>>
  /\ UNCHANGED <<messages, out, plays, pipelineFrame>>

\* textToSpeech(fallback) rejects
FallbackSynthesisFails(i) ==
  /\ IsAt(i, "cycle", "fb_tts")
  /\ Finally(i)
  /\ UNCHANGED <<messages, out, plays, pipelineFrame>>

\* mp3ToMulaw8k of the apology resolves with a buffer of n bytes
FallbackTranscodeReturns(i, n) ==
  /\ IsAt(i, "cycle", "fb_mulaw")
  /\ out' = out \o PlayBuffer(streamSid, Buf(n))
  /\ plays' = Append(plays, PlayRecord("fallback", n))
  /\ Finally(i)
  /\ UNCHANGED <<messages, pipelineFrame>>

\* mp3ToMulaw8k of the apology rejects
FallbackTranscodeFails(i) ==
  /\ IsAt(i, "cycle", "fb_mulaw")
  /\ Finally(i)
  /\ UNCHANGED <<messages, out, plays, pipelineFrame>>

(***************************************************************************)
(* The greeting started by the start message.                              *)
(***************************************************************************)
GreetingSynthesisReturns(i, mp3Empty) ==
  /\ IsAt(i, "greeting", "tts")
  /\ IF mp3Empty
     THEN tasks' = RemoveAt(tasks, i)
     ELSE tasks' = [tasks EXCEPT ![i].pc = "mulaw"]
  /\ UNCHANGED <<messages, isPlaying, ignoreTranscriptsUntil, out, plays, pipelineFrame>>

GreetingSynthesisFails(i) ==
  /\ IsAt(i, "greeting", "tts")
  /\ tasks' = RemoveAt(tasks, i)
  /\ UNCHANGED <<messages, isPlaying, ignoreTranscriptsUntil, out, plays, pipelineFrame>>

\* Faulty variant: the greeting's playback loop yields to the event loop
\* after every frame; the frames sent so far are counted in the task.
GreetingTranscodeReturnsYields(i, n) ==
  /\ IsAt(i, "greeting", "mulaw")
  /\ LET fs == PlayBuffer(streamSid, Buf(n))
         k == Len(tasks[i].arg) + 1
     IN  /\ out' = Append(out, fs[k])
         /\ IF k = Len(fs)
            THEN /\ plays' = Append(plays, PlayRecord("greeting", n))
                 /\ tasks' = RemoveAt(tasks, i)
            ELSE /\ plays' = plays
                 /\ tasks' = [tasks EXCEPT ![i].arg = Append(@, k)]
  /\ UNCHANGED <<messages, isPlaying, ignoreTranscriptsUntil, pipelineFrame>>

GreetingTranscodeReturns(i, n) ==
  /\ IsAt(i, "greeting", "mulaw")
  /\ out' = out \o PlayBuffer(streamSid, Buf(n))
  /\ plays' = Append(plays, PlayRecord("greeting", n))
  /\ tasks' = RemoveAt(tasks, i)
  /\ UNCHANGED <<messages, isPlaying, ignoreTranscriptsUntil, pipelineFrame>>

GreetingTranscodeFails(i) ==
  /\ IsAt(i, "greeting", "mulaw")
  /\ tasks' = RemoveAt(tasks, i)
  /\ UNCHANGED <<messages, isPlaying, ignoreTranscriptsUntil, out, plays, pipelineFrame>>

(***************************************************************************)
(* Time passes.                                                            *)
(***************************************************************************)
Tick ==
  /\ Spend("ticks")
  /\ now' = now + TickMs
  /\ UNCHANGED <<closureVars, deepgramApiKey, readyState, conns, timers, tasks,
                 out, dg, inbound, plays, genCalls, lastEnd, cleanups,
                 frameVars, moduleVars>>

(***************************************************************************)
(* The session.                                                            *)
(***************************************************************************)
CycleStep(lens) ==
  \E i \in 1..Len(tasks) :
    \/ GenerationFails(i)
    \/ \E reply \in Replies : GenerationReturns(i, reply)
    \/ SynthesisFails(i)
    \/ \E e \in BOOLEAN : SynthesisReturns(i, e)
    \/ TranscodeFails(i)
    \/ \E n \in lens : TranscodeReturns(i, n)
    \/ FallbackSynthesisFails(i)
    \/ \E e \in BOOLEAN : FallbackSynthesisReturns(i, e)
    \/ FallbackTranscodeFails(i)
    \/ \E n \in lens : FallbackTranscodeReturns(i, n)

GreetingStep(lens) ==
  \E i \in 1..Len(tasks) :
    \/ \E e \in BOOLEAN : GreetingSynthesisReturns(i, e)
    \/ GreetingSynthesisFails(i)
    \/ \E n \in lens : GreetingTranscodeReturns(i, n)
    \/ GreetingTranscodeFails(i)

(***************************************************************************)
(* nehaResponseWithHistory from the inside: the model call of each round,  *)
(* the tool call a round may ask for, and the three ways it returns. The   *)
(* task stays at processTranscript's await of the reply throughout; when   *)
(* the callee settles, processTranscript's continuation runs in the same   *)
(* step.                                                                   *)
(***************************************************************************)
\* msg with tool_calls (one call), and the tool message pushed for it; the
\* contents are opaque.
ToolCallMessage == [role |-> "assistant", content |-> <<"TOOL_CALLS">>]

ToolMessage == [role |-> "tool", content |-> <<"TOOL_RESULT">>]

\* msg.content values of a message without tool calls: a reply, blanks,
\* nothing.
ModelContents == {ReplyText, TxtBlank, <<>>}

GenAt(i, at) == IsAt(i, "cycle", "gen") /\ tasks[i].loc.at = at

\* openai.chat.completions.create rejects
ModelRejects(i) ==
  /\ GenAt(i, "model")
  /\ GenerationFails(i)

\* the response has no choices[0].message
ModelReturnsNoMessage(i) ==
  /\ GenAt(i, "model")
  /\ GenerationReturns(i, NoMessageText)

\* the message has no tool calls: msg.content?.trim(), or the prompt
ModelReturnsContent(i, content) ==
  /\ GenAt(i, "model")
  /\ GenerationReturns(i, IF trim(content) = <<>> THEN EmptyContentText
                                                 ELSE trim(content))

\* the message asks for a tool: it is pushed and runTool is awaited
ModelReturnsToolCall(i) ==
  /\ GenAt(i, "model")
  /\ tasks' = [tasks EXCEPT ![i].arg = Append(@, ToolCallMessage),
                            ![i].loc.at = "tool"]
  /\ UNCHANGED <<messages, isPlaying, ignoreTranscriptsUntil, out, plays, pipelineFrame>>

\* runTool rejects
ToolRejects(i) ==
  /\ GenAt(i, "tool")
  /\ GenerationFails(i)

\* Faulty variant: the loop does not count its rounds.
ToolReturnsNoCountdown(i) ==
  /\ GenAt(i, "tool")
  /\ tasks' = [tasks EXCEPT ![i].arg = Append(@, ToolMessage),
                            ![i].loc.at = "model",
                            ![i].loc.calls = @ + 1]
  /\ UNCHANGED <<messages, isPlaying, ignoreTranscriptsUntil, out, plays, pipelineFrame>>

\* runTool resolves: the result is pushed and the loop test runs again,
\* while (maxTurns-- > 0); past it the next model call, else the return
\* after the loop
ToolReturns(i) ==
  /\ GenAt(i, "tool")
  /\ IF tasks[i].loc.maxTurns > 0
     THEN /\ tasks' = [tasks EXCEPT ![i].arg = Append(@, ToolMessage),
                                    ![i].loc.at = "model",
                                    ![i].loc.maxTurns = @ - 1,
                                    ![i].loc.calls = @ + 1]
          /\ UNCHANGED <<messages, isPlaying, ignoreTranscriptsUntil, out, plays, pipelineFrame>>
     ELSE GenerationReturns(i, ExhaustedText)

GenerationStep ==
  \E i \in 1..Len(tasks) :
    \/ ModelRejects(i)
    \/ ModelReturnsNoMessage(i)
    \/ \E content \in ModelContents : ModelReturnsContent(i, content)
    \/ ModelReturnsToolCall(i)
    \/ ToolRejects(i)
    \/ ToolReturns(i)

(***************************************************************************)
(* textToSpeech from the inside: the call of ElevenLabs, the retry with    *)
(* the free-tier voice, and googleTtsFallback's request (the texts spoken  *)
(* here fit its one chunk of 180 characters). The task stays at its        *)
(* caller's await of textToSpeech; when textToSpeech settles, the caller's *)
(* continuation runs in the same step.                                     *)
(***************************************************************************)
\* err.statusCode values of a rejected ElevenLabs call.
StatusCodes == {401, 402, 403, 500}

TtsAt(i, at) ==
  /\ i \in DOMAIN tasks
  /\ tasks[i].pc \in {"tts", "fb_tts"}
  /\ tasks[i].loc.at = at

\* The continuation of the caller, by call site: the reply, the apology,
\* the greeting.
TtsResolves(i, mp3Empty) ==
  \/ SynthesisReturns(i, mp3Empty)
  \/ FallbackSynthesisReturns(i, mp3Empty)
  \/ GreetingSynthesisReturns(i, mp3Empty)

TtsRejects(i) ==
  \/ SynthesisFails(i)
  \/ FallbackSynthesisFails(i)
  \/ GreetingSynthesisFails(i)

\* elevenlabs.textToSpeech.convert resolves
ConvertReturns(i, mp3Empty) ==
  /\ TtsAt(i, "convert")
  /\ TtsResolves(i, mp3Empty)

\* Faulty variant: a 402 is retried with the free-tier voice whatever voice
\* the failed call used.
ConvertRejectsRetriesAgain(i, statusCode) ==
  /\ TtsAt(i, "convert")
  /\ IF statusCode = 402
     THEN /\ tasks' = [tasks EXCEPT
                        ![i].loc.voiceId = FREE_TIER_VOICE_ID,
                        ![i].loc.made = Append(@, [backend |-> "elevenlabs",
                                                   voiceId |-> FREE_TIER_VOICE_ID])]
          /\ UNCHANGED <<messages, isPlaying, ignoreTranscriptsUntil, out, plays, pipelineFrame>>
     ELSE IF statusCode \in {401, 403} /\ trim(tasks[i].text) # <<>>
     THEN /\ tasks' = [tasks EXCEPT
                        ![i].loc.at = "fetch",
                        ![i].loc.made = Append(@, [backend |-> "google",
                                                   voiceId |-> NULL])]
          /\ UNCHANGED <<messages, isPlaying, ignoreTranscriptsUntil, out, plays, pipelineFrame>>
     ELSE TtsRejects(i)

\* elevenlabs.textToSpeech.convert rejects with err.statusCode: the catch of
\* textToSpeech
ConvertRejects(i, statusCode) ==
  /\ TtsAt(i, "convert")
  /\ IF statusCode = 402 /\ tasks[i].loc.voiceId # FREE_TIER_VOICE_ID
     THEN /\ tasks' = [tasks EXCEPT
                        ![i].loc.voiceId = FREE_TIER_VOICE_ID,
                        ![i].loc.made = Append(@, [backend |-> "elevenlabs",
                                                   voiceId |-> FREE_TIER_VOICE_ID])]
          /\ UNCHANGED <<messages, isPlaying, ignoreTranscriptsUntil, out, plays, pipelineFrame>>
     ELSE IF statusCode \in {401, 403} /\ trim(tasks[i].text) # <<>>
     THEN /\ tasks' = [tasks EXCEPT
                        ![i].loc.at = "fetch",
                        ![i].loc.made = Append(@, [backend |-> "google",
                                                   voiceId |-> NULL])]
          /\ UNCHANGED <<messages, isPlaying, ignoreTranscriptsUntil, out, plays, pipelineFrame>>
     ELSE \* err is thrown again, or googleTtsFallback throws on an empty text
          TtsRejects(i)

\* googleTtsFallback's fetch resolves: an error status or a body of fewer
\* than 100 bytes makes it throw
FetchReturns(i, ok, small) ==
  /\ TtsAt(i, "fetch")
  /\ IF ok /\ ~small THEN TtsResolves(i, FALSE) ELSE TtsRejects(i)

\* googleTtsFallback's fetch rejects (network error, or the 10 s abort)
FetchRejects(i) ==
  /\ TtsAt(i, "fetch")
  /\ TtsRejects(i)

SynthesisStep ==
  \E i \in 1..Len(tasks) :
    \/ \E e \in BOOLEAN : ConvertReturns(i, e)
    \/ \E s \in StatusCodes : ConvertRejects(i, s)
    \/ \E ok \in BOOLEAN, small \in BOOLEAN : FetchReturns(i, ok, small)
    \/ FetchRejects(i)

\* The transcoder's answers.
TranscodeStep(lens) ==
  \E i \in 1..Len(tasks) :
    \/ TranscodeFails(i)
    \/ \E n \in lens : TranscodeReturns(i, n)
    \/ FallbackTranscodeFails(i)
    \/ \E n \in lens : FallbackTranscodeReturns(i, n)
    \/ GreetingTranscodeFails(i)
    \/ \E n \in lens : GreetingTranscodeReturns(i, n)

(***************************************************************************)
(* One utterance and its reply, with reply generation and synthesis opened *)
(* up, in a deployment with or without a voice of its own.                 *)
(***************************************************************************)
\* ELEVENLABS_VOICE_ID: process.env.ELEVENLABS_VOICE_ID or the default.
VoiceIds == {FREE_TIER_VOICE_ID, "ownVoice"}

\* Lengths of the buffers the transcoder returns here, the empty one too.
ReplyBufLens == {0, TWILIO_MULAW_BYTES_PER_CHUNK + 30}

InitReply ==
  /\ InitSession
  /\ NoFrames
  /\ ELEVENLABS_VOICE_ID \in VoiceIds
  /\ IdleServer
  /\ OneConnection
  /\ budget = Budget(1, 1, 1, 0, 0, 0)

NextReply ==
  \/ \E sid \in StreamSids : TwilioStart(sid)
  \/ \E c \in 1..Len(conns) : DeepgramOpen(c)
  \/ \E c \in 1..Len(conns) : DeepgramTranscript(c, TxtOrder, TRUE)
  \/ \E c \in 1..Len(conns) : DeepgramUtteranceEnd(c)
  \/ GenerationStep
  \/ SynthesisStep
  \/ TranscodeStep(ReplyBufLens)

SpecReply == InitReply /\ [][NextReply]_vars

(***************************************************************************)
(* The accumulator on its own: transcript fragments, interim and final,    *)
(* blank and empty ones among them, and utterance ends. The recognition    *)
(* engine sends its words without blanks around them.                      *)
(***************************************************************************)
FragmentTexts == {TxtJi, TxtBatao, TxtBlank, <<>>}

InitFragments ==
  /\ InitSession
  /\ NoFrames
  /\ DefaultModule
  /\ budget = Budget(1, MaxFragments + 1, 1, 0, 0, 0)

NextFragments ==
  \/ \E sid \in StreamSids : TwilioStart(sid)
  \/ \E c \in 1..Len(conns) : DeepgramOpen(c)
  \/ \E c \in 1..Len(conns), t \in FragmentTexts, f \in BOOLEAN :
       DeepgramTranscript(c, t, f)
  \/ \E c \in 1..Len(conns) : DeepgramUtteranceEnd(c)

SpecFragments == InitFragments /\ [][NextFragments]_vars

(***************************************************************************)
(* Echo: fragments that arrive while the system is silent and its hangover *)
(* window has passed, and fragments that arrive while it speaks or during  *)
(* the window (its own voice heard back, or the caller talking over it).   *)
(* The two are told apart by their texts; both pass the noise gate.        *)
(***************************************************************************)
CallerText == TxtOrder

EchoText == <<"b","i","l","k","u","l"," ","b","a","t","a","o">>

\* The system is neither speaking nor inside its hangover window.
Quiet == ~isPlaying /\ ~(now < ignoreTranscriptsUntil)

InitEcho ==
  /\ InitSession
  /\ NoFrames
  /\ DefaultModule
  /\ budget = Budget(1, MaxFragments, MaxUtteranceEnds, 0, 0, MaxTicks)

NextEcho ==
  \/ \E sid \in StreamSids : TwilioStart(sid)
  \/ \E c \in 1..Len(conns) : DeepgramOpen(c)
  \/ \E c \in 1..Len(conns), f \in BOOLEAN :
       Quiet /\ DeepgramTranscript(c, CallerText, f)
  \/ \E c \in 1..Len(conns), f \in BOOLEAN :
       ~Quiet /\ DeepgramTranscript(c, EchoText, f)
  \/ \E c \in 1..Len(conns) : DeepgramUtteranceEnd(c)
  \/ CycleStep(TurnBufLens)
  \/ Tick

SpecEcho == InitEcho /\ [][NextEcho]_vars

(***************************************************************************)
(* The history over several cycles, with the greeting pipeline running     *)
(* beside them and the clock, which ends the hangover window between them. *)
(***************************************************************************)
\* Length of the greeting's buffer: two full frames and a partial one, so
\* that its frames differ from those of a reply or an apology.
GreetingBufLens == {2 * TWILIO_MULAW_BYTES_PER_CHUNK + 30}

InitHistory ==
  /\ InitSession
  /\ NoFrames
  /\ DefaultModule
  /\ budget = Budget(1, MaxFragments, MaxUtteranceEnds, 0, 0, MaxTicks)

NextHistory ==
  \/ \E sid \in StreamSids : TwilioStart(sid)
  \/ \E c \in 1..Len(conns) : DeepgramOpen(c)
  \/ \E c \in 1..Len(conns) : DeepgramTranscript(c, TxtOrder, TRUE)
  \/ \E c \in 1..Len(conns) : DeepgramUtteranceEnd(c)
  \/ CycleStep(TurnBufLens)
  \/ GreetingStep(GreetingBufLens)
  \/ Tick

SpecHistory == InitHistory /\ [][NextHistory]_vars

(***************************************************************************)
(* The playback store of app.js: processRecordingAndCallback files the     *)
(* reply of a recorded call under the caller's number, and GET             *)
(* /exotel/playback looks it up when the caller is called back.            *)
(***************************************************************************)
\* Caller numbers (From), and the ids of synthesized replies.
Froms == {"+911", "+912"}

AudioIds == {"a1", "a2"}

\* `${BASE_URL}/audio/${audioId}.wav`
AudioUrl(audioId) == <<"BASE_URL", "/audio/", audioId, ".wav">>

NoLongerAvailable ==
  <<"Sorry, your response is no longer available. Please call again.">>

\* Times the clock moves between requests: a moment, the rest of the
\* time to live, and the whole of it.
Waits == {1, STORE_TTL_MS - 1, STORE_TTL_MS}

\* Everything of the media-stream sessions, which the HTTP handlers leave
\* alone.
streamState ==
  <<closureVars, deepgramApiKey, readyState, conns, timers, tasks, out, dg,
    inbound, plays, genCalls, lastEnd, cleanups, frameVars,
    ELEVENLABS_VOICE_ID, cur, peer>>

\* playbackStore.set(k, v)
MapSet(m, k, v) == [x \in DOMAIN m \cup {k} |-> IF x = k THEN v ELSE m[x]]

\* for (const [k, v] of playbackStore) if (v.expiry < now) delete
Sweep(m, t) == [x \in {k \in DOMAIN m : ~(m[k].expiry < t)} |-> m[x]]

\* processRecordingAndCallback after runPipeline has resolved
StoreReply(from, audioId) ==
  /\ Spend("fragments")
  /\ playbackStore' = MapSet(playbackStore, from,
                             [audioUrl |-> AudioUrl(audioId),
                              expiry |-> now + STORE_TTL_MS])
  /\ UNCHANGED <<now, answered, streamState, exotelVars>>

\* Faulty variant: the lookup does not sweep.
PlaybackLookupNoSweep(from) ==
  /\ Spend("media")
  /\ playbackStore' = playbackStore
  /\ answered' =
       IF from # NULL /\ from \in DOMAIN playbackStore
       THEN [from |-> from, type |-> "audio_url",
             value |-> playbackStore[from].audioUrl, swept |-> {}]
       ELSE [from |-> from, type |-> "text", value |-> NoLongerAvailable,
             swept |-> {}]
  /\ UNCHANGED <<now, streamState, exotelVars>>

\* GET /exotel/playback?From=from (from is NULL when the query has none)
PlaybackLookup(from) ==
  /\ Spend("media")
  /\ playbackStore' = Sweep(playbackStore, now)
  /\ answered' =
       IF from # NULL /\ from \in DOMAIN playbackStore'
       THEN [from |-> from, type |-> "audio_url",
             value |-> playbackStore'[from].audioUrl,
             swept |-> DOMAIN playbackStore \ DOMAIN playbackStore']
       ELSE [from |-> from, type |-> "text", value |-> NoLongerAvailable,
             swept |-> DOMAIN playbackStore \ DOMAIN playbackStore']
  /\ UNCHANGED <<now, streamState, exotelVars>>

\* HEAD /exotel/playback: answered before the store is looked at
PlaybackHead ==
  /\ Spend("starts")
  /\ answered' = [from |-> NULL, type |-> "head", value |-> <<>>, swept |-> {}]
  /\ UNCHANGED <<now, playbackStore, streamState, exotelVars>>

\* Time passes between requests.
Wait(ms) ==
  /\ Spend("ticks")
  /\ now' = now + ms
  /\ UNCHANGED <<playbackStore, answered, streamState, exotelVars>>

\* No stream is connected. The budget counts the replies still to be stored
\* under fragments, the lookups under media, the HEAD requests under starts.
InitPlayback ==
  /\ InitSession
  /\ NoFrames
  /\ DefaultModule
  /\ budget = Budget(1, 2, 0, 2, 0, 2)

NextPlayback ==
  \/ \E from \in Froms, audioId \in AudioIds : StoreReply(from, audioId)
  \/ \E from \in Froms \cup {NULL} : PlaybackLookup(from)
  \/ PlaybackHead
  \/ \E ms \in Waits : Wait(ms)

SpecPlayback == InitPlayback /\ [][NextPlayback]_vars

\* The start message of the stream has been handled: the transport sends
\* start first, and stop only after it.
Started == budget.starts = 0

(***************************************************************************)
(* Two connections. wss.on("connection") calls handleTwilioStream once per *)
(* socket, and each call has its own closure: its own variables, socket,   *)
(* recognition connections, timers and suspended functions. The event loop *)
(* runs one handler at a time; the variables of the model hold the closure *)
(* of the connection whose handlers run, peer holds the other one. The     *)
(* clock and the configuration belong to the process.                      *)
(***************************************************************************)
\* The closure of the connection whose handlers run, with its socket and
\* everything created from inside it.
Closure ==
  [streamSid |-> streamSid, deepgramLive |-> deepgramLive,
   keepAliveInterval |-> keepAliveInterval, messages |-> messages,
   isPlaying |-> isPlaying, pendingTranscript |-> pendingTranscript,
   ignoreTranscriptsUntil |-> ignoreTranscriptsUntil,
   readyState |-> readyState, conns |-> conns, timers |-> timers,
   tasks |-> tasks, out |-> out, dg |-> dg, inbound |-> inbound,
   plays |-> plays, genCalls |-> genCalls, lastEnd |-> lastEnd,
   budget |-> budget, cleanups |-> cleanups]

\* Faulty variant: messages is one array of the module, used by every
\* connection.
SwitchSharedHistory ==
  /\ peer # <<>>
  /\ cur' = 3 - cur
  /\ peer' = <<Closure>>
  /\ streamSid' = peer[1].streamSid
  /\ deepgramLive' = peer[1].deepgramLive
  /\ keepAliveInterval' = peer[1].keepAliveInterval
  /\ messages' = messages
  /\ isPlaying' = peer[1].isPlaying
  /\ pendingTranscript' = peer[1].pendingTranscript
  /\ ignoreTranscriptsUntil' = peer[1].ignoreTranscriptsUntil
  /\ readyState' = peer[1].readyState
  /\ conns' = peer[1].conns
  /\ timers' = peer[1].timers
  /\ tasks' = peer[1].tasks
  /\ out' = peer[1].out
  /\ dg' = peer[1].dg
  /\ inbound' = peer[1].inbound
  /\ plays' = peer[1].plays
  /\ genCalls' = peer[1].genCalls
  /\ lastEnd' = peer[1].lastEnd
  /\ budget' = peer[1].budget
  /\ cleanups' = peer[1].cleanups
  /\ UNCHANGED <<now, deepgramApiKey, frameVars, ELEVENLABS_VOICE_ID,
                 playbackStore, answered, exotelVars>>

\* The event loop turns to an event of the other connection: its handlers
\* see the variables of their own closure.
Switch ==
  /\ peer # <<>>
  /\ cur' = 3 - cur
  /\ peer' = <<Closure>>
  /\ streamSid' = peer[1].streamSid
  /\ deepgramLive' = peer[1].deepgramLive
  /\ keepAliveInterval' = peer[1].keepAliveInterval
  /\ messages' = peer[1].messages
  /\ isPlaying' = peer[1].isPlaying
  /\ pendingTranscript' = peer[1].pendingTranscript
  /\ ignoreTranscriptsUntil' = peer[1].ignoreTranscriptsUntil
  /\ readyState' = peer[1].readyState
  /\ conns' = peer[1].conns
  /\ timers' = peer[1].timers
  /\ tasks' = peer[1].tasks
  /\ out' = peer[1].out
  /\ dg' = peer[1].dg
  /\ inbound' = peer[1].inbound
  /\ plays' = peer[1].plays
  /\ genCalls' = peer[1].genCalls
  /\ lastEnd' = peer[1].lastEnd
  /\ budget' = peer[1].budget
  /\ cleanups' = peer[1].cleanups
  /\ UNCHANGED <<now, deepgramApiKey, frameVars, ELEVENLABS_VOICE_ID,
                 playbackStore, answered, exotelVars>>

(***************************************************************************)
(* POST /exotel/webhook of app.js and processRecordingAndCallback: the     *)
(* pipeline runs in the background and its result is stored for the        *)
(* caller; then the platform is asked to call the caller back.             *)
(***************************************************************************)
\* From fields of the requests; "" when the request has none.
WebhookFroms == Froms \cup {""}

\* RecordingUrl fields of the requests; "" when the request has none.
RecordingUrls == {"rec1", "NULL", ""}

\* String(recordingUrl).toLowerCase() on the recording fields of the requests
ToLowerCase(s) == IF s = "NULL" THEN "null" ELSE IF s = "None" THEN "none" ELSE s

\* !recordingUrl || ["null", "none", ""].includes(recordingUrl.toLowerCase())
NoRecording(recordingUrl) ==
  recordingUrl = "" \/ ToLowerCase(recordingUrl) \in {"null", "none", ""}

\* A request that waits for runPipeline or for the platform's answer; wrote
\* are the entries it has put into playbackStore, connects its calls of
\* exotelConnectApi, each with the caller's entry at the time of the call.
Run(kind, from, recordingUrl, pc) ==
  [kind |-> kind, from |-> from, recordingUrl |-> recordingUrl, pc |-> pc,
   wrote |-> <<>>, connects |-> <<>>]

RunAt(r, kind, pc) == r \in DOMAIN runs /\ runs[r].kind = kind /\ runs[r].pc = pc

\* The caller's entry in store m, if any.
EntryOf(m, from) == IF from \in DOMAIN m THEN <<m[from]>> ELSE <<>>

\* exotelConnectApi(fromNumber, appId) as called under store m
ConnectCall(m, from) == [From |-> from, appId |-> EXOTEL_APP_ID, entry |-> EntryOf(m, from)]

\* EXOTEL_CALLBACK_PLAY_RESPONSE && fromNumber && EXOTEL_APP_ID
CallbackWanted(from) ==
  EXOTEL_CALLBACK_PLAY_RESPONSE /\ from # "" /\ EXOTEL_APP_ID # ""

exotelState ==
  <<now, streamState, EXOTEL_CALLBACK_PLAY_RESPONSE, EXOTEL_APP_ID>>

\* POST /exotel/webhook with From = from and RecordingUrl = recordingUrl; the
\* requests still to come are counted under utteranceEnds.
Webhook(from, recordingUrl) ==
  /\ Spend("utteranceEnds")
  /\ IF NoRecording(recordingUrl)
     THEN /\ answered' = [from |-> from, type |-> "json", value |-> <<"No recording">>,
                          swept |-> {}]
          /\ runs' = runs
     ELSE /\ answered' = [from |-> from, type |-> "json",
                          value |-> <<"Processing in background">>, swept |-> {}]
          /\ runs' = Append(runs, Run("recording", from, recordingUrl, "pipeline"))
  /\ UNCHANGED <<playbackStore, exotelState>>

\* Faulty variant: the callback is placed before the entry is stored.
RecordingPipelineResolvesCallsFirst(r, audioId) ==
  /\ RunAt(r, "recording", "pipeline")
  /\ LET entry == [audioUrl |-> AudioUrl(audioId), expiry |-> now + STORE_TTL_MS]
         from == runs[r].from
     IN  /\ playbackStore' = MapSet(playbackStore, from, entry)
         /\ runs' = [runs EXCEPT
                       ![r].wrote = Append(@, entry),
                       ![r].connects = IF CallbackWanted(from)
                                       THEN Append(@, ConnectCall(playbackStore, from))
                                       ELSE @,
                       ![r].pc = IF CallbackWanted(from) THEN "connect" ELSE "done"]
  /\ UNCHANGED <<answered, budget, exotelState>>

\* runPipeline(recordingUrl) resolves with audioId: the entry is stored and,
\* if a callback is wanted, exotelConnectApi is called and awaited.
RecordingPipelineResolves(r, audioId) ==
  /\ RunAt(r, "recording", "pipeline")
  /\ LET entry == [audioUrl |-> AudioUrl(audioId), expiry |-> now + STORE_TTL_MS]
         from == runs[r].from
     IN  /\ playbackStore' = MapSet(playbackStore, from, entry)
         /\ runs' = [runs EXCEPT
                       ![r].wrote = Append(@, entry),
                       ![r].connects = IF CallbackWanted(from)
                                       THEN Append(@, ConnectCall(playbackStore', from))
                                       ELSE @,
                       ![r].pc = IF CallbackWanted(from) THEN "connect" ELSE "done"]
  /\ UNCHANGED <<answered, budget, exotelState>>

\* runPipeline(recordingUrl) rejects: the catch block logs.
RecordingPipelineRejects(r) ==
  /\ RunAt(r, "recording", "pipeline")
  /\ runs' = [runs EXCEPT ![r].pc = "done"]
  /\ UNCHANGED <<playbackStore, answered, budget, exotelState>>

\* exotelConnectApi resolves, or rejects and the catch block logs.
ConnectSettles(r) ==
  /\ RunAt(r, "recording", "connect")
  /\ runs' = [runs EXCEPT ![r].pc = "done"]
  /\ UNCHANGED <<playbackStore, answered, budget, exotelState>>

\* Time passes between requests and results; the budget is left alone.
Elapse(ms) ==
  /\ now + ms <= TickMs + MaxTicks * TickMs
  /\ now' = now + ms
  /\ UNCHANGED <<playbackStore, answered, budget, runs, streamState,
                 EXOTEL_CALLBACK_PLAY_RESPONSE, EXOTEL_APP_ID>>

\* No stream is connected; the deployment may or may not have the callback
\* switched on and an application id.
InitWebhook ==
  /\ InitSession
  /\ NoFrames
  /\ ELEVENLABS_VOICE_ID = FREE_TIER_VOICE_ID
  /\ OneConnection
  /\ playbackStore = <<>>
  /\ answered = [from |-> NULL, type |-> "none", value |-> <<>>, swept |-> {}]
  /\ runs = <<>>
  /\ EXOTEL_CALLBACK_PLAY_RESPONSE \in BOOLEAN
  /\ EXOTEL_APP_ID \in {"", "app1"}
  /\ budget = Budget(0, 0, MaxUtteranceEnds, 0, 0, 0)

NextWebhook ==
  \/ \E from \in WebhookFroms, recordingUrl \in RecordingUrls : Webhook(from, recordingUrl)
  \/ \E r \in 1..Len(runs), audioId \in AudioIds : RecordingPipelineResolves(r, audioId)
  \/ \E r \in 1..Len(runs) : RecordingPipelineRejects(r)
  \/ \E r \in 1..Len(runs) : ConnectSettles(r)
  \/ Elapse(TickMs)

SpecWebhook == InitWebhook /\ [][NextWebhook]_vars

(***************************************************************************)
(* GET and POST /exotel/voice-loop of app.js: the answer tells the         *)
(* platform to play an audio file, record the caller and post the          *)
(* recording back to the same address.                                     *)
(***************************************************************************)
\* `${BASE_URL}/exotel/voice-loop`
VOICE_LOOP_URL == <<"BASE_URL", "/exotel/voice-loop">>

\* `${BASE_URL}/audio/greeting.wav`
GreetingUrl == AudioUrl("greeting")

\* .replace(/&/g, "&amp;").replace(/</g, "&lt;").replace(/>/g, "&gt;")
\* .replace(/"/g, "&quot;") on a text given piece by piece
XmlEscape(text) ==
  [k \in DOMAIN text |->
     CASE text[k] = "&" -> "&amp;"
       [] text[k] = "<" -> "&lt;"
       [] text[k] = ">" -> "&gt;"
       [] text[k] = "\"" -> "&quot;"
       [] OTHER -> text[k]]

\* The document buildPlayRecordXml returns: the children of <Response>.
buildPlayRecordXml(playAudioUrl, recordActionUrl, maxLengthSec, timeoutSec) ==
  <<[tag |-> "Play", text |-> XmlEscape(playAudioUrl), action |-> <<>>,
     maxLength |-> 0, timeout |-> 0],
    [tag |-> "Record", text |-> <<>>, action |-> XmlEscape(recordActionUrl),
     maxLength |-> maxLengthSec, timeout |-> timeoutSec]>>

\* reply.type("application/xml").send(xml)
XmlReply(from, xml) == [from |-> from, type |-> "xml", value |-> xml, swept |-> {}]

\* RecordingUrl, or RecordingSid, fields of the POST requests.
VoiceLoopRecordings == {"rec1", "None", ""}

\* recordingUrl && !["null", "none", ""].includes(String(recordingUrl).toLowerCase())
HasRecording(recordingUrl) ==
  /\ recordingUrl # ""
  /\ ToLowerCase(recordingUrl) \notin {"null", "none", ""}

\* A request to /exotel/voice-loop up to the first await of
\* handleVoiceLoopRequest; GET passes "" for the recording. The requests
\* still to come are counted under media.
VoiceLoop(method, from, recordingUrl) ==
  /\ Spend("media")
  /\ method = "GET" => recordingUrl = ""
  /\ runs' = Append(runs, Run(method, from, recordingUrl,
                              IF HasRecording(recordingUrl) THEN "pipeline"
                              ELSE "greeting"))
  /\ UNCHANGED <<playbackStore, answered, exotelState>>

VoiceLoopAt(r, pc) ==
  r \in DOMAIN runs /\ runs[r].kind \in {"GET", "POST"} /\ runs[r].pc = pc

\* runPipeline(recordingUrl) resolves with audioId
VoiceLoopPipelineResolves(r, audioId) ==
  /\ VoiceLoopAt(r, "pipeline")
  /\ answered' = XmlReply(runs[r].from,
                          buildPlayRecordXml(AudioUrl(audioId), VOICE_LOOP_URL, 8, 2))
  /\ runs' = [runs EXCEPT ![r].pc = "done"]
  /\ UNCHANGED <<playbackStore, budget, exotelState>>

\* ensureGreetingWav() resolves
VoiceLoopGreetingResolves(r) ==
  /\ VoiceLoopAt(r, "greeting")
  /\ answered' = XmlReply(runs[r].from,
                          buildPlayRecordXml(GreetingUrl, VOICE_LOOP_URL, 8, 2))
  /\ runs' = [runs EXCEPT ![r].pc = "done"]
  /\ UNCHANGED <<playbackStore, budget, exotelState>>

\* Faulty variant: the catch block answers with an error, as the webhook does.
VoiceLoopRejectsWithError(r) ==
  /\ VoiceLoopAt(r, "pipeline") \/ VoiceLoopAt(r, "greeting")
  /\ answered' = [from |-> runs[r].from, type |-> "json", value |-> <<"error">>,
                  swept |-> {}]
  /\ runs' = [runs EXCEPT ![r].pc = "done"]
  /\ UNCHANGED <<playbackStore, budget, exotelState>>

\* runPipeline or ensureGreetingWav rejects: the route's catch block answers.
VoiceLoopRejects(r) ==
  /\ VoiceLoopAt(r, "pipeline") \/ VoiceLoopAt(r, "greeting")
  /\ answered' = XmlReply(runs[r].from,
                          buildPlayRecordXml(GreetingUrl, VOICE_LOOP_URL, 8, 2))
  /\ runs' = [runs EXCEPT ![r].pc = "done"]
  /\ UNCHANGED <<playbackStore, budget, exotelState>>

InitVoiceLoop ==
  /\ InitSession
  /\ NoFrames
  /\ DefaultModule
  /\ budget = Budget(0, 0, 0, MaxMedia, 0, 0)

NextVoiceLoop ==
  \/ \E method \in {"GET", "POST"}, from \in WebhookFroms,
        recordingUrl \in VoiceLoopRecordings : VoiceLoop(method, from, recordingUrl)
  \/ \E r \in 1..Len(runs), audioId \in AudioIds : VoiceLoopPipelineResolves(r, audioId)
  \/ \E r \in 1..Len(runs) : VoiceLoopGreetingResolves(r)
  \/ \E r \in 1..Len(runs) : VoiceLoopRejects(r)

SpecVoiceLoop == InitVoiceLoop /\ [][NextVoiceLoop]_vars

\* Two sockets have connected and handleTwilioStream has run for each.
InitSessions ==
  /\ InitSession
  /\ NoFrames
  /\ ELEVENLABS_VOICE_ID = FREE_TIER_VOICE_ID
  /\ IdleServer
  /\ budget = Budget(1, 1, 1, 0, 1, 0)
  /\ cur = 1
  /\ peer = <<Closure>>

NextSessions ==
  \/ Switch
  \/ \E sid \in StreamSids : TwilioStart(sid)
  \/ Started /\ TwilioStop
  \/ \E c \in 1..Len(conns) : DeepgramOpen(c)
  \/ \E c \in 1..Len(conns) : DeepgramTranscript(c, TxtOrder, TRUE)
  \/ \E c \in 1..Len(conns) : DeepgramUtteranceEnd(c)
  \/ CycleStep(TurnBufLens)

SpecSessions == InitSessions /\ [][NextSessions]_vars

(***************************************************************************)
(* Turn taking: one stream (the transport sends one start message per      *)
(* stream), transcripts, utterance ends, the reply pipeline and the clock. *)
(* The greeting's synthesis call is outstanding throughout; its steps are  *)
(* part of the audio runs below.                                           *)
(***************************************************************************)
InitTurn ==
  /\ InitSession
  /\ NoFrames
  /\ DefaultModule
  /\ budget = Budget(1, MaxFragments, MaxUtteranceEnds, 0, 0, MaxTicks)

NextTurn ==
  \/ \E sid \in StreamSids : TwilioStart(sid)
  \/ \E c \in 1..Len(conns) : DeepgramOpen(c)
  \/ \E c \in 1..Len(conns), t \in TurnTexts, f \in BOOLEAN : DeepgramTranscript(c, t, f)
  \/ \E c \in 1..Len(conns) : DeepgramUtteranceEnd(c)
  \/ CycleStep(TurnBufLens)
  \/ Tick

SpecTurn == InitTurn /\ [][NextTurn]_vars

\* Every external call of a cycle eventually returns or fails.
SpecTurnFair == SpecTurn /\ WF_vars(CycleStep(TurnBufLens))

\* The continuations of a cycle other than those of the reply's transcoder.
ResponsiveStep(lens) ==
  \E i \in 1..Len(tasks) :
    \/ GenerationFails(i)
    \/ \E reply \in Replies : GenerationReturns(i, reply)
    \/ SynthesisFails(i)
    \/ \E e \in BOOLEAN : SynthesisReturns(i, e)
    \/ FallbackSynthesisFails(i)
    \/ \E e \in BOOLEAN : FallbackSynthesisReturns(i, e)
    \/ FallbackTranscodeFails(i)
    \/ \E n \in lens : FallbackTranscodeReturns(i, n)

\* Time passes and generation and synthesis answer; the transcoder of the
\* reply may stay silent: mp3ToMulaw8k settles only on ffmpeg's events, and
\* processTranscript awaits it with no timer of its own.
SpecTurnSilent ==
  SpecTurn /\ WF_vars(Tick) /\ WF_vars(ResponsiveStep(TurnBufLens))

(***************************************************************************)
(* Audio in both directions: one stream, inbound media messages, the       *)
(* greeting, one utterance and its cycle, and the end of the call.         *)
(***************************************************************************)
InitAudio ==
  /\ InitSession
  /\ NoFrames
  /\ DefaultModule
  /\ budget = Budget(1, 1, 1, MaxMedia, MaxTeardowns, 0)

NextAudio ==
  \/ \E sid \in StreamSids : TwilioStart(sid)
  \/ TwilioMedia
  \/ TwilioStop
  \/ TwilioClose
  \/ \E c \in 1..Len(conns) : DeepgramOpen(c)
  \/ \E c \in 1..Len(conns) : DeepgramClose(c)
  \/ \E c \in 1..Len(conns) : DeepgramTranscript(c, TxtOrder, TRUE)
  \/ \E c \in 1..Len(conns) : DeepgramUtteranceEnd(c)
  \/ CycleStep(TurnBufLens)
  \/ GreetingStep(TurnBufLens)

SpecAudio == InitAudio /\ [][NextAudio]_vars

(***************************************************************************)
(* A socket on which the start message comes twice: every start message    *)
(* runs the start handler again. With the greetings, one utterance and its *)
(* cycle, and the socket's close.                                          *)
(***************************************************************************)
InitRestart ==
  /\ InitSession
  /\ NoFrames
  /\ DefaultModule
  /\ budget = Budget(2, 1, 1, 0, MaxTeardowns, 0)

NextRestart ==
  \/ \E sid \in RestartSids : TwilioStart(sid)
  \/ TwilioClose
  \/ \E c \in 1..Len(conns) : DeepgramOpen(c)
  \/ \E c \in 1..Len(conns) : DeepgramTranscript(c, TxtOrder, TRUE)
  \/ \E c \in 1..Len(conns) : DeepgramUtteranceEnd(c)
  \/ CycleStep(TurnBufLens)
  \/ GreetingStep(TurnBufLens)

SpecRestart == InitRestart /\ [][NextRestart]_vars

(***************************************************************************)
(* Teardown: one stream with inbound media, one utterance and its cycle,   *)
(* and every event that runs cleanup(): the stop message, the socket's     *)
(* close and error events, the recognition connection's Close and Error.   *)
(* An Error leaves the connection able to deliver events until it closes,  *)
(* and so does the close request that cleanup() sends.                     *)
(***************************************************************************)

InitTeardown ==
  /\ InitSession
  /\ NoFrames
  /\ DefaultModule
  /\ budget = Budget(1, 1, 1, MaxMedia, MaxTeardowns, 0)

NextTeardown ==
  \/ \E sid \in StreamSids : TwilioStart(sid)
  \/ TwilioMedia
  \/ Started /\ TwilioStop
  \/ TwilioClose
  \/ Started /\ TwilioError
  \/ \E c \in 1..Len(conns) : DeepgramOpen(c)
  \/ \E c \in 1..Len(conns) : DeepgramClose(c)
  \/ \E c \in 1..Len(conns) : DeepgramError(c)
  \/ \E c \in 1..Len(conns) : DeepgramTranscript(c, TxtOrder, TRUE)
  \/ \E c \in 1..Len(conns) : DeepgramUtteranceEnd(c)
  \/ CycleStep(TurnBufLens)

SpecTeardown == InitTeardown /\ [][NextTeardown]_vars

(***************************************************************************)
(* The noise gate: one stream, fragments of filler and content words, and  *)
(* utterance ends; the calls of a started cycle stay outstanding.          *)
(***************************************************************************)
InitGate ==
  /\ InitSession
  /\ NoFrames
  /\ DefaultModule
  /\ budget = Budget(1, MaxFragments, MaxUtteranceEnds, 0, 0, 0)

NextGate ==
  \/ \E sid \in StreamSids : TwilioStart(sid)
  \/ \E c \in 1..Len(conns) : DeepgramOpen(c)
  \/ \E c \in 1..Len(conns), t \in GateTexts, f \in BOOLEAN : DeepgramTranscript(c, t, f)
  \/ \E c \in 1..Len(conns) : DeepgramUtteranceEnd(c)

SpecGate == InitGate /\ [][NextGate]_vars

(***************************************************************************)
(* The playback loop on its own: a buffer of any length up to MaxBufLen.   *)
(***************************************************************************)
InitFrames ==
  /\ InitSession
  /\ DefaultModule
  /\ budget = Budget(0, 0, 0, 0, 0, 0)
  /\ buf \in {Buf(n) : n \in 0..MaxBufLen}
  /\ frames = <<>>
  /\ sliced = FALSE

Slice ==
  /\ ~sliced
  /\ sliced' = TRUE
  /\ frames' = FrameLoop(buf)
  /\ UNCHANGED <<buf, sessionVars, moduleVars>>

NextFrames == Slice

SpecFrames == InitFrames /\ [][NextFrames]_vars


(***************************************************************************)
(* Properties.                                                             *)
(***************************************************************************)
\* The processTranscript runs in flight, and the one in flight if any.
CycleIdx == {i \in DOMAIN tasks : tasks[i].kind = "cycle"}

CyclesOf(ts) == {ts[i] : i \in {j \in DOMAIN ts : ts[j].kind = "cycle"}}

\* The step is a run of the UtteranceEnd handler.
UtteranceEndStep == budget'.utteranceEnds < budget.utteranceEnds

IsPrefix(p, q) == Len(p) <= Len(q) /\ SubSeq(q, 1, Len(p)) = p

\* Frame k (from 1) of a buffer b cut into frames of 160 bytes, the tail of
\* the last frame filled with 0xff; and the number of such frames.
ExpectedFrame(b, k) ==
  [j \in 1..160 |-> IF (k - 1) * 160 + j <= Len(b) THEN b[(k - 1) * 160 + j] ELSE 255]

ExpectedFrameCount(n) == (n + 159) \div 160

\* The calls of sendMediaToTwilio made by run p of the playback loop are the
\* frames of its buffer, each once and in slice order, and each reached the
\* socket unless the socket had closed.
PlayHandedOff(p) ==
  LET n == ExpectedFrameCount(p.len) IN
  /\ p.at + n - 1 <= Len(out)
  /\ \A k \in 1..n :
       /\ out[p.at + k - 1].event = "media"
       /\ out[p.at + k - 1].wired \/ readyState # WS_OPEN
       /\ Base64Decode(out[p.at + k - 1].payload) = ExpectedFrame(Buf(p.len), k)

\* The runs of the playback loop account for every call, without gaps.
PlaysTileOut ==
  /\ \A k \in 1..Len(plays) :
       plays[k].at = IF k = 1 THEN 1
                     ELSE plays[k - 1].at + ExpectedFrameCount(plays[k - 1].len)
  /\ plays # <<>> =>
       Len(out) = plays[Len(plays)].at + ExpectedFrameCount(plays[Len(plays)].len) - 1
  /\ plays = <<>> => \A k \in 1..Len(out) : out[k].event # "media"

\* C1: at most one processTranscript cycle is in flight at any instant, and a
\* cycle is in flight exactly when isPlaying is set (the check and the
\* setting of isPlaying are one step).
C1_OneCycleInFlight ==
  /\ Cardinality(CycleIdx) <= 1
  /\ isPlaying <=> CycleIdx # {}

\* A meaningful utterance ended while a cycle was in flight and was turned away.
C1_Witness ==
  /\ lastEnd.outcome = "busy"
  /\ isPlaying
  /\ Cardinality(CycleIdx) = 1

\* C2: an utterance whose end is signalled while isPlaying is true or before
\* ignoreTranscriptsUntil starts no reply generation and leaves history as it is.
C2_NoGenerationWhileSpeakingOrSuppressed ==
  [][(UtteranceEndStep /\ (isPlaying \/ now < ignoreTranscriptsUntil))
       => (genCalls' = genCalls /\ messages' = messages /\ tasks' = tasks)]_vars

\* An utterance long enough to be acted on ended inside the hangover window.
C2_Witness ==
  /\ lastEnd.outcome = "suppressed"
  /\ lastEnd.len >= 12
  /\ genCalls = 1

\* C3: whenever isPlaying becomes true it eventually becomes false again,
\* given that every external call returns or fails.
C3_SpeakingReturnsToListening == isPlaying ~> ~isPlaying

\* A cycle ended with nothing played: the reply failed and so did the apology.
C3_Witness ==
  /\ genCalls = 1
  /\ ~isPlaying
  /\ CycleIdx = {}
  /\ Len(messages) = 1
  /\ \A k \in 1..Len(plays) : plays[k].kind = "greeting"
  /\ ignoreTranscriptsUntil > 0

\* C4: a cycle whose generation, synthesis or transcoding fails goes on to
\* synthesize the fixed apology (no second generation call, history as it
\* is), the apology's frames are sliced and sent like a reply's, and
\* isPlaying is false when the cycle has ended.
C4_FailureLeadsToApology ==
  [][/\ \A t \in CyclesOf(tasks) :
          \/ t \in CyclesOf(tasks')
          \/ /\ t.pc = "gen"
             /\ \E u \in CyclesOf(tasks') : u.pc = "tts" /\ genCalls' = genCalls
          \/ /\ t.pc = "tts"
             /\ \E u \in CyclesOf(tasks') : u.pc = "mulaw" /\ u.text = t.text
          \/ /\ t.pc = "mulaw"
             /\ CyclesOf(tasks') = {}
             /\ Len(plays') = Len(plays) + 1
             /\ plays'[Len(plays')].kind = "reply"
          \/ /\ t.pc \in {"gen", "tts", "mulaw"}
             /\ \E u \in CyclesOf(tasks') :
                  u.pc = "fb_tts" /\ u.text = FALLBACK_TEXT /\ u.arg = <<>>
             /\ genCalls' = genCalls
             /\ messages' = messages
          \/ /\ t.pc = "fb_tts"
             /\ \E u \in CyclesOf(tasks') : u.pc = "fb_mulaw" /\ u.text = FALLBACK_TEXT
          \/ /\ t.pc = "fb_mulaw"
             /\ CyclesOf(tasks') = {}
             /\ Len(plays') = Len(plays) + 1
             /\ plays'[Len(plays')].kind = "fallback"
             /\ \E n \in TurnBufLens :
                  /\ plays'[Len(plays')].len = n
                  /\ Len(out') = Len(out) + ExpectedFrameCount(n)
                  /\ \A k \in 1..ExpectedFrameCount(n) :
                       out'[Len(out) + k].payload = Base64Encode(ExpectedFrame(Buf(n), k))
          \/ /\ t.pc \in {"fb_tts", "fb_mulaw"}
             /\ CyclesOf(tasks') = {}
             /\ plays' = plays
     /\ (CyclesOf(tasks) # {} /\ CyclesOf(tasks') = {}) => ~isPlaying'
    ]_vars

\* Synthesis of the reply failed, the apology was played, the session listens.
C4_Witness ==
  /\ Len(messages) = 2
  /\ messages[2].role = "assistant"
  /\ \E k \in 1..Len(plays) : plays[k].kind = "fallback"
  /\ \A k \in 1..Len(plays) : plays[k].kind # "reply"
  /\ ~isPlaying
  /\ CycleIdx = {}

\* C5: a buffer of L bytes is cut into ceil(L/160) frames of exactly 160
\* bytes; the frames put end to end start with the buffer, and every byte
\* after it is 0xff.
C5_FramesCoverBuffer ==
  sliced =>
    /\ Len(frames) = ExpectedFrameCount(Len(buf))
    /\ \A k \in 1..Len(frames) :
         /\ Len(frames[k]) = 160
         /\ \A j \in 1..160 :
              frames[k][j] = IF (k - 1) * 160 + j <= Len(buf)
                             THEN buf[(k - 1) * 160 + j]
                             ELSE 255

\* 350 bytes: three frames, the last with 30 bytes of data.
C5_Witness ==
  /\ sliced
  /\ Len(buf) = 350
  /\ Len(frames) = 3
  /\ frames[3][30] = buf[350]
  /\ frames[3][31] = 255

\* C6: every frame sliced from a buffer is handed to the transport once and
\* in slice order; nothing else is handed over in between.
C6_FramesHandedOffInOrder ==
  /\ PlaysTileOut
  /\ \A k \in 1..Len(plays) : PlayHandedOff(plays[k])

\* A greeting and a reply have been played on an open socket, two frames each.
C6_Witness ==
  /\ Len(plays) = 2
  /\ plays[2].kind = "reply"
  /\ Len(out) = 4
  /\ out[4].wired
  /\ readyState = WS_OPEN

\* C7: an inbound frame that arrives while isPlaying is true is not
\* forwarded to the recognition engine, at arrival or later.
C7_NoForwardWhileSpeaking ==
  \A i \in 1..Len(inbound) :
    inbound[i].playing => \A j \in 1..Len(dg) : dg[j].data # MediaBytes(i)

\* A frame arrived during a cycle and was dropped; the cycle has ended and a
\* later frame was forwarded.
C7_Witness ==
  /\ Len(inbound) = 2
  /\ inbound[1].playing
  /\ inbound[1].live # 0
  /\ ~inbound[2].playing
  /\ ~isPlaying
  /\ Len(dg) = 1
  /\ dg[1].data = MediaBytes(2)

\* The inbound frames that arrived while the session was listening (a
\* recognition connection held, no reply playing), in arrival order.
ListenedFrames ==
  LET idx == SelectSeq([i \in 1..Len(inbound) |-> i],
                       LAMBDA i : inbound[i].live # 0 /\ ~inbound[i].playing)
  IN  [k \in 1..Len(idx) |-> [conn |-> inbound[idx[k]].live, data |-> MediaBytes(idx[k])]]

\* C8: while the session is listening every inbound frame is forwarded to
\* the recognition connection once, in arrival order.
C8_ForwardedInArrivalOrder == dg = ListenedFrames

\* Two frames arrived while listening and both were forwarded.
C8_Witness ==
  /\ Len(dg) = 2
  /\ dg[1].data = MediaBytes(1)
  /\ dg[2].data = MediaBytes(2)

\* C9: history only grows at its end, and a reply-generation call gets the
\* whole history of that moment, the caller turn just released last.
C9_HistoryAppendOnly ==
  [][/\ IsPrefix(messages, messages')
     /\ genCalls' > genCalls =>
          /\ messages' = Append(messages, [role |-> "user",
                                           content |-> trim(pendingTranscript)])
          /\ \E u \in CyclesOf(tasks') :
               u.pc = "gen" /\ SubSeq(u.arg, 2, Len(u.arg)) = messages'
    ]_vars

\* The second generation call of a session: three turns of history.
C9_Witness ==
  /\ genCalls = 2
  /\ \E i \in CycleIdx : tasks[i].pc = "gen" /\ Len(tasks[i].arg) = 4
  /\ messages[2].role = "assistant"

\* C10: an utterance whose trimmed text has fewer than 12 characters adds no
\* caller turn and starts no reply generation.
C10_ShortUtteranceDiscarded ==
  [][(UtteranceEndStep /\ Len(trim(pendingTranscript)) < 12)
       => (messages' = messages /\ genCalls' = genCalls /\ tasks' = tasks)]_vars

\* A short, non-empty utterance reached the noise gate and was discarded.
C10_Witness ==
  /\ lastEnd.outcome = "ignored"
  /\ lastEnd.len > 0
  /\ lastEnd.len < 12
  /\ genCalls = 0

\* The whitespace-delimited tokens of an accumulated utterance, and how many
\* of them are the token w.
Tokens(text) == SplitWords(text)

TokenCount(text, w) == Cardinality({i \in 1..Len(Tokens(text)) : Tokens(text)[i] = w})

AllTokensFiller(text) == \A i \in 1..Len(Tokens(text)) : Tokens(text)[i] \in FILLER_PHRASES

\* The step releases nothing: no caller turn, no generation call, no cycle.
Discarded == messages' = messages /\ genCalls' = genCalls /\ tasks' = tasks

\* C11: an utterance all of whose tokens are filler words, at most 4 of
\* them, is discarded at its end: no caller turn, no generation call.
C11_FillerOnlyDiscarded ==
  [][(/\ UtteranceEndStep
      /\ AllTokensFiller(pendingTranscript)
      /\ Len(Tokens(pendingTranscript)) <= 4) => Discarded]_vars

\* A filler-only utterance that is neither short nor repetitive was discarded.
C11_Witness ==
  /\ lastEnd.outcome = "ignored"
  /\ lastEnd.len >= 12
  /\ AllTokensFiller(lastEnd.text)
  /\ Len(Tokens(lastEnd.text)) \in 2..4
  /\ \A i \in 1..Len(Tokens(lastEnd.text)) :
        TokenCount(lastEnd.text, Tokens(lastEnd.text)[i]) < 3
  /\ genCalls = 0

\* C12: an utterance of at least 3 tokens, one of which makes up at least
\* 60% of the tokens and is a filler word or at most 3 characters long, is
\* discarded at its end.
C12_RepetitiveNoiseDiscarded ==
  [][(/\ UtteranceEndStep
      /\ Len(Tokens(pendingTranscript)) >= 3
      /\ \E i \in 1..Len(Tokens(pendingTranscript)) :
           LET w == Tokens(pendingTranscript)[i] IN
           /\ 5 * TokenCount(pendingTranscript, w) >= 3 * Len(Tokens(pendingTranscript))
           /\ (w \in FILLER_PHRASES \/ Len(w) <= 3)) => Discarded]_vars

\* C13: a meaningful utterance (not too short, not filler-only, not
\* repetitive noise) whose end comes while the session is listening and not
\* suppressed adds exactly one caller turn, starts exactly one generation
\* call, and isPlaying is set in the same step.
C13_MeaningfulUtteranceReleased ==
  [][(/\ UtteranceEndStep
      /\ ~isPlaying
      /\ ~(now < ignoreTranscriptsUntil)
      /\ Len(trim(pendingTranscript)) >= 12
      /\ ~isFillerOnly(trim(pendingTranscript))
      /\ ~isRepetitiveNoise(trim(pendingTranscript)))
       => /\ messages' = Append(messages, [role |-> "user",
                                            content |-> trim(pendingTranscript)])
          /\ genCalls' = genCalls + 1
          /\ Cardinality({i \in DOMAIN tasks' : tasks'[i].kind = "cycle"}) = 1
          /\ isPlaying'
          /\ pendingTranscript' = <<>>]_vars

\* The order "mujhe ashwagandha tablets chahiye" has just been released.
C13_Witness ==
  /\ lastEnd.outcome = "started"
  /\ lastEnd.text = TxtOrder
  /\ messages = <<[role |-> "user", content |-> TxtOrder]>>
  /\ genCalls = 1
  /\ isPlaying
  /\ \E i \in CycleIdx : tasks[i].pc = "gen"

\* C14: in the step in which a cycle ends (isPlaying goes back to false)
\* ignoreTranscriptsUntil becomes the time of that step plus 1000 ms, and it
\* changes in no other step; an utterance end before ignoreTranscriptsUntil
\* is discarded and the accumulator is reset.
C14_HangoverAfterEveryCycle ==
  [][/\ (isPlaying /\ ~isPlaying') => ignoreTranscriptsUntil' = now + 1000
     /\ (CyclesOf(tasks) # {} /\ CyclesOf(tasks') = {}) => (isPlaying /\ ~isPlaying')
     /\ ignoreTranscriptsUntil' # ignoreTranscriptsUntil => (isPlaying /\ ~isPlaying')
     /\ (UtteranceEndStep /\ now < ignoreTranscriptsUntil)
          => (Discarded /\ pendingTranscript' = <<>> /\ ~isPlaying')
    ]_vars

\* The apology was played and an utterance that ended inside the window that
\* followed was discarded.
C14_Witness ==
  /\ \E k \in 1..Len(plays) : plays[k].kind = "fallback"
  /\ lastEnd.outcome = "suppressed"
  /\ lastEnd.len > 0
  /\ pendingTranscript = <<>>
  /\ now < ignoreTranscriptsUntil
  /\ ~isPlaying

\* The calls of sendMediaToTwilio that reached twilioWs.send.
SentFrames(o) == SelectSeq(o, LAMBDA m : m.event = "media" /\ m.wired)

\* C15: once the stop message or the socket's close or error event has been
\* handled, no generation call is started, no inbound frame is forwarded to
\* the recognition connection and no outbound frame is sent.
C15_StopIsTerminal ==
  [][cleanups.twilio > 0 =>
       /\ genCalls' = genCalls
       /\ dg' = dg
       /\ SentFrames(out') = SentFrames(out)]_vars

\* The step is a run of cleanup().
CleanupStep == cleanups' # cleanups

\* C16: a run of cleanup() leaves no timer handle and no connection held;
\* a run that follows another one (nothing having been set since) changes
\* nothing; and the close of a recognition connection is requested at most
\* once.
C16_TeardownIdempotent ==
  [][CleanupStep =>
       /\ keepAliveInterval' = 0
       /\ deepgramLive' = 0
       /\ \A c \in DOMAIN conns' : conns'[c].closeReqs <= 1
       /\ (keepAliveInterval = 0 /\ deepgramLive = 0) =>
            /\ timers' = timers
            /\ \A c \in DOMAIN conns : conns'[c].closeReqs = conns[c].closeReqs
            /\ streamSid' = streamSid
            /\ messages' = messages
            /\ isPlaying' = isPlaying
            /\ pendingTranscript' = pendingTranscript
            /\ ignoreTranscriptsUntil' = ignoreTranscriptsUntil]_vars

\* cleanup() has run for the stop message, for the socket's close and for the
\* recognition connection's Close; the close was requested once.
C16_Witness ==
  /\ cleanups.twilio = 2
  /\ cleanups.deepgram = 1
  /\ readyState = WS_CLOSED
  /\ Len(conns) = 1
  /\ conns[1].st = "closed"
  /\ conns[1].closeReqs = 1
  /\ timers = {}

\* C17: once the recognition connection's Close or Error has been handled,
\* the connection is released, no new one is opened, no inbound frame is
\* forwarded and no utterance is released to reply generation.
C17_RecognitionFailureIsFatal ==
  [][cleanups.deepgram > 0 =>
       /\ deepgramLive' = 0
       /\ Len(conns') = Len(conns)
       /\ dg' = dg
       /\ genCalls' = genCalls]_vars

\* C18: without the recognition credential the session stays idle: no
\* recognition connection, no greeting, no inbound frame forwarded, no
\* generation call, and one error message per start message handled.
C18_MissingCredentialStaysIdle ==
  ~deepgramApiKey =>
    /\ conns = <<>>
    /\ deepgramLive = 0
    /\ tasks = <<>>
    /\ plays = <<>>
    /\ dg = <<>>
    /\ genCalls = 0
    /\ messages = <<>>
    /\ ~isPlaying
    /\ Len(out) = (IF Started THEN 1 ELSE 0)
    /\ \A k \in 1..Len(out) : out[k].event = "error" /\ out[k].wired

\* The start message was answered with the error and two inbound frames
\* arrived afterwards.
C18_Witness ==
  /\ ~deepgramApiKey
  /\ Started
  /\ Len(out) = 1
  /\ out[1].event = "error"
  /\ Len(inbound) = 2
  /\ dg = <<>>

\* Cycles ended so far that did not play their reply.
FailedCycles ==
  (genCalls - Cardinality(CycleIdx))
    - Cardinality({k \in 1..Len(plays) : plays[k].kind = "reply"})

\* C19: a failure inside a cycle does not end the session: no step of a
\* cycle touches the recognition connection, the keep-alive timer or the
\* socket; when the cycle has ended isPlaying is false and the connection is
\* held; and after a failed cycle a meaningful utterance that ends outside
\* the hangover window starts a new cycle.
C19_TurnFailureKeepsSession ==
  [][/\ (CyclesOf(tasks) # {} /\ tasks' # tasks /\ ~UtteranceEndStep) =>
          /\ deepgramLive' = deepgramLive
          /\ conns' = conns
          /\ keepAliveInterval' = keepAliveInterval
          /\ timers' = timers
          /\ readyState' = readyState
          /\ streamSid' = streamSid
     /\ (CyclesOf(tasks) # {} /\ CyclesOf(tasks') = {}) =>
          (~isPlaying' /\ deepgramLive' # 0)
     /\ (/\ UtteranceEndStep
         /\ FailedCycles > 0
         /\ ~isPlaying
         /\ ~(now < ignoreTranscriptsUntil)
         /\ ~shouldIgnoreTranscript(trim(pendingTranscript)))
          => (genCalls' = genCalls + 1 /\ isPlaying' /\ CyclesOf(tasks') # {})
    ]_vars

\* The first cycle failed at generation and at the apology; a second
\* utterance has started a new cycle on the same connection.
C19_Witness ==
  /\ genCalls = 2
  /\ Len(messages) = 2
  /\ messages[2].role = "user"
  /\ \A k \in 1..Len(plays) : plays[k].kind = "greeting"
  /\ isPlaying
  /\ deepgramLive # 0
  /\ conns[deepgramLive].st = "open"

\* C20: a frame that cannot be sent because the socket is closed ends the
\* playback of its buffer (no later frame of the buffer is attempted) and
\* the session is torn down.
C20_SendFailureEndsPlayback ==
  \A k \in 1..Len(plays) :
    \A j \in plays[k].at..(plays[k].at + ExpectedFrameCount(plays[k].len) - 1) :
      (j <= Len(out) /\ ~out[j].wired) =>
        /\ j = plays[k].at + ExpectedFrameCount(plays[k].len) - 1 \/ j = Len(out)
        /\ deepgramLive = 0

\* C21: a cycle waiting for generation, synthesis or transcoding is over
\* after some time even if the awaited call never answers: the session does
\* not stay Speaking forever.
C21_NoSilentHang ==
  (\E i \in 1..Len(tasks) :
      tasks[i].kind = "cycle" /\ tasks[i].pc \in {"gen", "tts", "mulaw"})
    ~> ~isPlaying

\* The greetings in flight.
GreetingsOf(ts) == SelectSeq(ts, LAMBDA t : t.kind = "greeting")

\* The number of apologies played so far.
FallbackPlays == Len(SelectSeq(plays, LAMBDA p : p.kind = "fallback"))

\* C22: the start message and every step of the greeting leave isPlaying,
\* the history and the suppression deadline alone; a greeting that ends
\* without audio sends nothing, and apologies are played for cycles only; an
\* inbound frame that arrives while a greeting is in flight and no reply is
\* playing is forwarded to the recognition connection.
C22_GreetingKeepsListening ==
  [][/\ GreetingsOf(tasks') # GreetingsOf(tasks) =>
          /\ isPlaying' = isPlaying
          /\ messages' = messages
          /\ ignoreTranscriptsUntil' = ignoreTranscriptsUntil
          /\ FallbackPlays' = FallbackPlays
          /\ (Len(GreetingsOf(tasks')) < Len(GreetingsOf(tasks)) /\ plays' = plays)
                => out' = out
     /\ FallbackPlays' <= genCalls'
     /\ (/\ Len(inbound') > Len(inbound)
         /\ GreetingsOf(tasks) # <<>>
         /\ ~isPlaying
         /\ deepgramLive # 0) =>
          dg' = Append(dg, [conn |-> deepgramLive,
                            data |-> MediaBytes(Len(inbound) + 1)])]_vars

\* A frame arrived and was forwarded while the greeting was waiting for the
\* transcoder, and the session is listening.
C22_Witness ==
  /\ \E i \in 1..Len(tasks) : IsAt(i, "greeting", "mulaw")
  /\ Len(inbound) = 1
  /\ Len(dg) = 1
  /\ dg[1].data = MediaBytes(1)
  /\ ~isPlaying
  /\ messages = <<>>
  /\ ignoreTranscriptsUntil = 0

\* C23: once streamSid has been assigned it keeps its value, whatever
\* messages follow on the socket.
C23_StreamSidImmutable ==
  [][streamSid # NULL => streamSid' = streamSid]_vars

\* C30: every audio message that reaches the socket carries the streamSid
\* the session holds, which a start message assigned, and it is sent while
\* the socket is open; while streamSid is null or the socket is not open
\* no audio message reaches the socket.
C30_AudioCarriesStreamSid ==
  [][\A k \in (Len(out) + 1)..Len(out') :
       out'[k].event = "media" =>
         /\ out'[k].wired <=> (streamSid # NULL /\ readyState = WS_OPEN)
         /\ out'[k].wired =>
              /\ out'[k].streamSid = streamSid
              /\ out'[k].streamSid \in RestartSids \ {NULL}
              /\ budget.starts < 2]_vars

\* A greeting was played in full under the identifier of the start message,
\* and after a start message without identifier the frames of a later
\* buffer were all dropped.
C30_Witness ==
  /\ Len(plays) = 2
  /\ streamSid = NULL
  /\ readyState = WS_OPEN
  /\ \A k \in 1..Len(out) :
       /\ out[k].event = "media"
       /\ k < plays[2].at => (out[k].wired /\ out[k].streamSid = "MZ1")
       /\ k >= plays[2].at => (~out[k].wired /\ out[k].streamSid = NULL)

\* The tool-call messages a run of nehaResponseWithHistory has pushed.
ToolRounds(t) == Len(SelectSeq(t.arg, LAMBDA m : m = ToolCallMessage))

\* C24: a run of nehaResponseWithHistory has made at most 8 model calls,
\* one for each round it has entered, however many rounds asked for a tool;
\* after the eighth it waits for no further call.
C24_AtMostEightModelCalls ==
  \A i \in 1..Len(tasks) :
    tasks[i].pc = "gen" =>
      /\ tasks[i].loc.calls <= 8
      /\ tasks[i].loc.at = "model" => tasks[i].loc.calls = ToolRounds(tasks[i]) + 1
      /\ tasks[i].loc.at = "tool" => tasks[i].loc.calls = ToolRounds(tasks[i])

\* Seven rounds asked for a tool and the eighth model call is outstanding.
C24_Witness ==
  \E i \in 1..Len(tasks) :
    /\ GenAt(i, "model")
    /\ tasks[i].loc.calls = 8
    /\ ToolRounds(tasks[i]) = 7

\* C25: when the eighth round of a run of nehaResponseWithHistory has asked
\* for a tool and the run goes on, generation has failed: the cycle is on
\* the apology path and the history has no new turn.
C25_ExhaustionFailsGeneration ==
  [][\A t \in CyclesOf(tasks) :
       (/\ t.pc = "gen"
        /\ t.loc.at = "tool"
        /\ t.loc.calls = 8
        /\ t \notin CyclesOf(tasks')) =>
         /\ messages' = messages
         /\ \A u \in CyclesOf(tasks') :
              u.pc = "fb_tts" /\ u.text = FALLBACK_TEXT]_vars

\* The cycle in flight is on the apology path: it waits for the synthesis
\* of the apology.
OnApologyPath(ts) ==
  /\ CyclesOf(ts) # {}
  /\ \A u \in CyclesOf(ts) : u.pc = "fb_tts" /\ u.text = FALLBACK_TEXT

\* C26: when the transcoder hands back no audio for a reply, and when the
\* model hands back a message whose text is empty or blank, the cycle goes
\* on to the apology, inside the turn; an empty reply text adds no turn to
\* the history.
C26_MalformedOutputLeadsToApology ==
  [][/\ (\E i \in 1..Len(tasks) : TranscodeReturns(i, 0))
         => OnApologyPath(tasks')
     /\ (\E i \in 1..Len(tasks), content \in ModelContents :
            trim(content) = <<>> /\ ModelReturnsContent(i, content))
         => (OnApologyPath(tasks') /\ messages' = messages)]_vars

\* The backend calls of one run of textToSpeech: ElevenLabs with the
\* configured voice first; at most one retry, second, with the free-tier
\* voice and only if the configured voice is another; at most one call of
\* the alternate backend, last.
BackendCallsOnce(made) ==
  /\ Len(made) <= 3
  /\ Len(made) >= 1 =>
       made[1] = [backend |-> "elevenlabs", voiceId |-> ELEVENLABS_VOICE_ID]
  /\ \A k \in 2..Len(made) :
       \/ /\ made[k] = [backend |-> "elevenlabs", voiceId |-> FREE_TIER_VOICE_ID]
          /\ k = 2
          /\ ELEVENLABS_VOICE_ID # FREE_TIER_VOICE_ID
       \/ /\ made[k] = [backend |-> "google", voiceId |-> NULL]
          /\ k = Len(made)

\* textToSpeech(reply) rejects in this step: an error other than 401, 402
\* and 403, a 402 for the free-tier voice, or a failure of the alternate
\* backend.
ReplySynthesisRejects(i) ==
  /\ IsAt(i, "cycle", "tts")
  /\ \/ ConvertRejects(i, 500)
     \/ tasks[i].loc.voiceId = FREE_TIER_VOICE_ID /\ ConvertRejects(i, 402)
     \/ FetchRejects(i)
     \/ \E ok \in BOOLEAN, small \in BOOLEAN :
          ~(ok /\ ~small) /\ FetchReturns(i, ok, small)

\* C27: a run of textToSpeech calls each fallback at most once: a 402 for
\* a voice other than the free-tier one is answered by one retry with the
\* free-tier voice, a 401 or 403 by one call of the alternate backend, in
\* the same run; any other failure of the reply's synthesis puts the cycle
\* on the apology path.
C27_SynthesisFallsBackOnce ==
  [][/\ \A i \in 1..Len(tasks') : BackendCallsOnce(tasks'[i].loc.made)
     /\ \A i \in 1..Len(tasks) :
          /\ (/\ TtsAt(i, "convert")
              /\ tasks[i].loc.voiceId # FREE_TIER_VOICE_ID
              /\ ConvertRejects(i, 402)) =>
               /\ TtsAt(i, "convert")'
               /\ tasks'[i].loc.voiceId = FREE_TIER_VOICE_ID
               /\ Len(tasks'[i].loc.made) = Len(tasks[i].loc.made) + 1
          /\ (TtsAt(i, "convert") /\ (ConvertRejects(i, 401) \/ ConvertRejects(i, 403))) =>
               /\ TtsAt(i, "fetch")'
               /\ Len(tasks'[i].loc.made) = Len(tasks[i].loc.made) + 1
          /\ ReplySynthesisRejects(i) => OnApologyPath(tasks')]_vars

\* A reply was synthesized by the alternate backend after ElevenLabs had
\* refused the deployment's voice (402) and then the free-tier voice (401
\* or 403): three backend calls in one run of textToSpeech.
C27_Witness ==
  \E i \in 1..Len(tasks) :
    /\ IsAt(i, "cycle", "mulaw")
    /\ tasks[i].text = ReplyText
    /\ Len(tasks[i].loc.made) = 3
    /\ tasks[i].loc.made[2].voiceId = FREE_TIER_VOICE_ID
    /\ tasks[i].loc.made[3].backend = "google"

\* C28: a lookup removes exactly the entries whose expiry is earlier than
\* now, then answers with the caller's audio if the caller's entry is still
\* there, and otherwise that the response is no longer available; so the
\* audio of an entry whose expiry has passed is never returned.
C28_LookupSweepsExpired ==
  [][\A from \in Froms \cup {NULL} :
       PlaybackLookup(from) =>
         /\ DOMAIN playbackStore' =
              {k \in DOMAIN playbackStore : playbackStore[k].expiry >= now}
         /\ \A k \in DOMAIN playbackStore' : playbackStore'[k] = playbackStore[k]
         /\ IF /\ from \in DOMAIN playbackStore
               /\ playbackStore[from].expiry >= now
            THEN /\ answered'.type = "audio_url"
                 /\ answered'.value = playbackStore[from].audioUrl
            ELSE /\ answered'.type = "text"
                 /\ answered'.value = NoLongerAvailable]_vars

\* A caller whose entry had expired asked for it: the entry was removed and
\* the answer was that the response is no longer available, while a later
\* entry of another caller stayed.
C28_Witness ==
  /\ answered.type = "text"
  /\ answered.from \in answered.swept
  /\ playbackStore # <<>>
  /\ \A k \in DOMAIN playbackStore : playbackStore[k].expiry >= now

\* The state of connection s that the claim names: its closure variables
\* and its recognition connections.
SessionView(s) ==
  IF s = cur
  THEN [isPlaying |-> isPlaying, messages |-> messages,
        pendingTranscript |-> pendingTranscript,
        ignoreTranscriptsUntil |-> ignoreTranscriptsUntil,
        streamSid |-> streamSid, deepgramLive |-> deepgramLive,
        conns |-> conns]
  ELSE [isPlaying |-> peer[1].isPlaying, messages |-> peer[1].messages,
        pendingTranscript |-> peer[1].pendingTranscript,
        ignoreTranscriptsUntil |-> peer[1].ignoreTranscriptsUntil,
        streamSid |-> peer[1].streamSid, deepgramLive |-> peer[1].deepgramLive,
        conns |-> peer[1].conns]

\* C29: an event of one connection leaves isPlaying, the history,
\* pendingTranscript, ignoreTranscriptsUntil, streamSid and the recognition
\* connections of the other connection as they were, and a connection finds
\* them as it left them when its next event runs.
C29_SessionsShareNoState ==
  [][\A s \in {1, 2} :
       (s # cur \/ cur' # cur) => SessionView(s)' = SessionView(s)]_vars

\* Both connections are in the middle of a call with different states: one
\* is speaking with a caller turn in its history, the other is listening
\* with an empty history and has been stopped.
C29_Witness ==
  /\ isPlaying
  /\ Len(messages) = 1
  /\ streamSid # NULL
  /\ ~peer[1].isPlaying
  /\ peer[1].messages = <<>>
  /\ peer[1].streamSid # NULL
  /\ peer[1].deepgramLive = 0
  /\ deepgramLive # 0

\* The texts a and b joined by one space; a alone added to nothing.
JoinBySpace(a, b) == IF a = <<>> THEN b ELSE a \o <<" ">> \o b

\* C32: a fragment with text, interim or final, extends the accumulator by
\* one space and its text (the first fragment since the accumulator was
\* cleared by its text alone); a blank or empty fragment leaves the
\* accumulator as it is; only an utterance end clears it. So the
\* accumulator is the texts of the fragments since it was cleared, joined
\* by single spaces in arrival order.
C32_FragmentsJoinedInOrder ==
  [][/\ \A c \in 1..Len(conns), t \in FragmentTexts, f \in BOOLEAN :
          DeepgramTranscript(c, t, f) =>
            pendingTranscript' = IF trim(t) = <<>> THEN pendingTranscript
                                 ELSE JoinBySpace(pendingTranscript, t)
     /\ pendingTranscript' # pendingTranscript =>
          \/ budget'.fragments < budget.fragments
          \/ (UtteranceEndStep /\ pendingTranscript' = <<>>)]_vars

\* Three fragments have arrived, one of them blank or empty, and the
\* accumulator holds the texts of the other two in arrival order.
C32_Witness ==
  /\ budget.fragments = MaxFragments + 1 - 3
  /\ pendingTranscript = TxtBatao \o <<" ">> \o TxtJi

\* C33: right after every run of the UtteranceEnd handler the accumulator is
\* empty, whether the utterance end was suppressed by the hangover window,
\* discarded by the noise gate, rejected because a cycle is in flight, or
\* released to a new cycle.
C33_UtteranceEndClearsAccumulator ==
  [][UtteranceEndStep => pendingTranscript' = <<>>]_vars

\* An utterance end inside the hangover window found text in the accumulator
\* and cleared it.
C33_Witness ==
  /\ lastEnd.outcome = "suppressed"
  /\ lastEnd.text = EchoText
  /\ pendingTranscript = <<>>
  /\ now < ignoreTranscriptsUntil

\* The step is a call of processTranscript that returned at one of its two
\* guards: a cycle was in flight, or the text was blank.
RejectedCall == UtteranceEndStep /\ lastEnd'.outcome \in {"busy", "blank"}

\* C36: a call of processTranscript rejected at its guards changes neither
\* the lock, nor the history, nor the end of the hangover window, and it
\* neither starts a cycle nor touches the one in flight: the lock is still
\* held by that cycle afterwards.
C36_RejectedCallChangesNothing ==
  [][RejectedCall =>
       /\ UNCHANGED <<isPlaying, messages, ignoreTranscriptsUntil, tasks, genCalls>>
       /\ lastEnd'.outcome = "busy" => isPlaying']_vars

\* An utterance that passed the noise gate was rejected because the first
\* cycle is still in flight; that cycle holds the lock.
C36_Witness ==
  /\ lastEnd.outcome = "busy"
  /\ lastEnd.text = EchoText
  /\ isPlaying
  /\ Cardinality(CyclesOf(tasks)) = 1
  /\ Len(messages) = 1

\* The text p occurs in the text q.
Occurs(p, q) == \E k \in 1..(Len(q) - Len(p) + 1) : SubSeq(q, k, k + Len(p) - 1) = p

\* C38: the text of a fragment that arrived while the system was speaking or
\* inside its hangover window is in no utterance passed to reply
\* generation, i.e. in no caller turn of the history.
C38_EchoNeverReleased ==
  \A k \in DOMAIN messages :
    messages[k].role = "user" => ~Occurs(EchoText, messages[k].content)

\* The transport's stop, close or error handler has run cleanup().
TornDown == cleanups.twilio >= 1

\* A recognition connection was created and every connection created has
\* delivered its Close event: no Open is pending any more.
AllDelivered == conns # <<>> /\ \A c \in DOMAIN conns : conns[c].st = "closed"

\* C34: once the session is torn down and the recognition connection has
\* delivered its events, keepAliveInterval is null and no keep-alive timer
\* is scheduled, also when Open was delivered after cleanup() had run.
C34_NoTimerAfterTeardown ==
  (TornDown /\ AllDelivered) => (keepAliveInterval = 0 /\ timers = {})

\* The session was torn down by the transport, the connection has closed,
\* and its Close handler ran cleanup() as well.
C34_Witness ==
  /\ TornDown
  /\ AllDelivered
  /\ cleanups.deepgram >= 1
  /\ conns[1].closeReqs = 1
  /\ timers = {}

\* C35: the session has at most one open recognition connection and at most
\* one scheduled keep-alive timer, also after more than one start message.
C35_OneConnectionOneTimer ==
  /\ Cardinality({c \in DOMAIN conns : conns[c].st = "open"}) <= 1
  /\ Cardinality(timers) <= 1

\* The step starts a cycle; reply generation of a cycle fails; it succeeds.
CycleStarts == UtteranceEndStep /\ lastEnd'.outcome = "started"

GenerationFailed == \E i \in 1..Len(tasks) : GenerationFails(i)

GenerationSucceeded == \E i \in 1..Len(tasks), reply \in Replies : GenerationReturns(i, reply)

\* C37: a cycle adds the caller turn to the history when it starts and the
\* system turn when its reply generation succeeds, right behind its caller
\* turn; nothing else changes the history: not a failed generation, not
\* synthesis, transcoding or playback of the reply, the apology or the
\* greeting. So a cycle adds one turn when generation fails and two when it
\* succeeds, the greeting and apology texts are never in the history, and
\* no two system turns follow each other.
C37_HistoryGrowsPerCycle ==
  [][/\ CycleStarts =>
          messages' = Append(messages, [role |-> "user", content |-> lastEnd'.text])
     /\ GenerationSucceeded =>
          /\ \E reply \in Replies :
               messages' = Append(messages, [role |-> "assistant", content |-> reply])
          /\ messages[Len(messages)].role = "user"
     /\ GenerationFailed => messages' = messages
     /\ ~(CycleStarts \/ GenerationSucceeded) => messages' = messages
     /\ \A k \in DOMAIN messages' :
          /\ messages'[k].content \notin {GREETING_TEXT, FALLBACK_TEXT}
          /\ (k > 1 /\ messages'[k].role = "assistant") =>
               messages'[k - 1].role = "user"
     /\ Len(messages') <= 2 * genCalls'
     /\ Cardinality({k \in DOMAIN messages' : messages'[k].role = "user"}) = genCalls'
    ]_vars

\* Two cycles have ended: generation succeeded in the first and failed in the
\* second, whose apology was played; the greeting was played as well.
C37_Witness ==
  /\ genCalls = 2
  /\ CyclesOf(tasks) = {}
  /\ Len(messages) = 3
  /\ messages[2].role = "assistant"
  /\ messages[3].role = "user"
  /\ \E p \in DOMAIN plays : plays[p].kind = "fallback"
  /\ \E p \in DOMAIN plays : plays[p].kind = "greeting"

\* The frames of play p as they stand in out.
FramesOf(p) == SubSeq(out, p.at, p.at + ExpectedFrameCount(p.len) - 1)

\* C39: the frames of one buffer are handed to the transport in one piece:
\* a step that hands over a media frame hands over all frames of one
\* buffer, of the greeting, a reply or the apology, behind what was handed
\* over before, and what has been handed over is the buffers played, one
\* whole buffer after the other, also when the greeting pipeline and a
\* reply cycle run at the same time.
C39_BuffersNotInterleaved ==
  [][/\ (Len(out') > Len(out) /\ out'[Len(out')].event = "media") =>
          \E kind \in {"greeting", "reply", "fallback"},
             n \in TurnBufLens \cup GreetingBufLens :
            /\ (kind = "greeting") = (n \in GreetingBufLens)
            /\ plays' = Append(plays, PlayRecord(kind, n))
            /\ out' = out \o PlayBuffer(streamSid, Buf(n))
     /\ \A k \in 2..Len(plays') :
          plays'[k].at = plays'[k - 1].at + ExpectedFrameCount(plays'[k - 1].len)
     /\ plays' # <<>> =>
          Len(out') = plays'[Len(plays')].at + ExpectedFrameCount(plays'[Len(plays')].len) - 1
    ]_vars

\* A cycle started while the greeting was still being synthesised; its reply
\* was played first, two frames, then the greeting, three frames.
C39_Witness ==
  /\ Len(plays) = 2
  /\ plays[1].kind = "reply"
  /\ plays[2].kind = "greeting"
  /\ FramesOf(plays[1]) = PlayBuffer(streamSid, Buf(TWILIO_MULAW_BYTES_PER_CHUNK + 30))
  /\ FramesOf(plays[2]) = PlayBuffer(streamSid, Buf(2 * TWILIO_MULAW_BYTES_PER_CHUNK + 30))
  /\ Len(out) = 5

\* C40: a run of processRecordingAndCallback stores the caller's entry in
\* the step in which its pipeline resolves, and nothing else changes the
\* store; a callback is placed only by a run that has stored its entry, and
\* the store holds that entry when the call is placed; a run whose pipeline
\* rejects leaves the store as it is and places no callback; no run stores
\* more than one entry.
C40_StoredBeforeCallback ==
  [][/\ \A r \in 1..Len(runs), audioId \in AudioIds :
          RecordingPipelineResolves(r, audioId) =>
            /\ playbackStore' =
                 MapSet(playbackStore, runs[r].from,
                        [audioUrl |-> AudioUrl(audioId), expiry |-> now + STORE_TTL_MS])
            /\ Len(runs'[r].connects) = IF CallbackWanted(runs[r].from) THEN 1 ELSE 0
     /\ \A r \in 1..Len(runs) :
          RecordingPipelineRejects(r) =>
            /\ playbackStore' = playbackStore
            /\ runs'[r].pc = "done"
            /\ runs'[r].connects = <<>>
     /\ playbackStore' # playbackStore =>
          \E r \in 1..Len(runs), audioId \in AudioIds : RecordingPipelineResolves(r, audioId)
     /\ \A r \in DOMAIN runs' :
          /\ Len(runs'[r].wrote) <= 1
          /\ runs'[r].pc = "pipeline" => runs'[r].wrote = <<>>
          /\ \A c \in DOMAIN runs'[r].connects :
               /\ Len(runs'[r].wrote) = 1
               /\ runs'[r].connects[c].entry = runs'[r].wrote
    ]_vars

\* Two runs for the same caller: the pipeline of the first rejected, the
\* second stored its entry and placed the callback, which has settled.
C40_Witness ==
  /\ Len(runs) = 2
  /\ runs[1].from = runs[2].from
  /\ runs[1].pc = "done" /\ runs[1].wrote = <<>> /\ runs[1].connects = <<>>
  /\ runs[2].pc = "done" /\ Len(runs[2].connects) = 1
  /\ runs[2].connects[1].entry = <<playbackStore[runs[2].from]>>

\* The answer is a document with one Play of url and one Record that posts
\* back to the voice-loop address.
PlaysAndRecords(answer, url) ==
  /\ answer.type = "xml"
  /\ Len(answer.value) = 2
  /\ answer.value[1].tag = "Play"
  /\ answer.value[1].text = url
  /\ answer.value[2].tag = "Record"
  /\ answer.value[2].action = VOICE_LOOP_URL

\* C31: every answer of the voice-loop endpoint is a document with one Play
\* and one Record whose action is the voice-loop address. A request without
\* a recording (every GET among them) plays the greeting file, a request
\* with a recording plays the file the pipeline made for it, and a request
\* whose pipeline or greeting fails plays the greeting file.
C31_VoiceLoopAlwaysAnswersPlayRecord ==
  [][/\ \A r \in 1..Len(runs), audioId \in AudioIds :
          VoiceLoopPipelineResolves(r, audioId) =>
            /\ HasRecording(runs[r].recordingUrl) /\ runs[r].kind = "POST"
            /\ PlaysAndRecords(answered', AudioUrl(audioId))
     /\ \A r \in 1..Len(runs) :
          VoiceLoopGreetingResolves(r) =>
            /\ ~HasRecording(runs[r].recordingUrl)
            /\ PlaysAndRecords(answered', GreetingUrl)
     /\ \A r \in 1..Len(runs) :
          VoiceLoopRejects(r) => PlaysAndRecords(answered', GreetingUrl)
     /\ answered' # answered =>
          \E audioId \in AudioIds \cup {"greeting"} :
            PlaysAndRecords(answered', AudioUrl(audioId))
     /\ \A r \in DOMAIN runs' :
          (runs'[r].kind = "GET" \/ ~HasRecording(runs'[r].recordingUrl)) =>
            runs'[r].pc \in {"greeting", "done"}
    ]_vars

\* Two requests with a recording have been answered; the last answer plays
\* the file the pipeline made.
C31_Witness ==
  /\ Len(runs) = 2
  /\ \A r \in DOMAIN runs : runs[r].pc = "done" /\ HasRecording(runs[r].recordingUrl)
  /\ PlaysAndRecords(answered, AudioUrl("a2"))

=============================================================================
